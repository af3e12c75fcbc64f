SPECIFICATION Spec
CONSTANTS
    c1 = c1
    c2 = c2
    k = k
    x = x
    t1 = t1
    t2 = t2
    t3 = t3
    t4 = t4
    Calls = {c1, c2}
    Handles = {k, x, t1, t2, t3, t4}
    Stored <- MCStored
    Programs <- MCPrograms
SYMMETRY Alike
INVARIANTS Accounted InventoryExact

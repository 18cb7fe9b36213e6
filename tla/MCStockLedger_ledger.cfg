SPECIFICATION Spec
CONSTANTS
    l1 = l1
    l2 = l2
    l3 = l3
    o1 = o1
    o2 = o2
    product = product
    paper = paper
    Lines = {l1, l2, l3}
    Subjects = {product, paper}
    Subject <- SmallSubject
    Product <- SmallProduct
    Order <- SmallOrder
    Quantities <- SmallQuantities
    MaxTotal = 2
CHECK_DEADLOCK FALSE
INVARIANTS
    TypeOK
    TotalExplained
    AllocatedExplained
    ActiveIsRecorded

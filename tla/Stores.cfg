\* Two handlers at work on two records whose IDs share a prefix.
CONSTANTS
    Ids <- MCIds
    Owners = {p1, p2}
    Callers = {k1, k2}
    Absent = Absent
SPECIFICATION Spec
SYMMETRY Symmetry
INVARIANTS StoresAgree  FullIDExact AnswersAgree

\* The registers of the FMCH, a master and an operator at the menu.
SPECIFICATION Spec
CONSTANTS
    reg_offset = 0
    reg_count = 14
    Requests <- AllRequests
    MaxRequests = 2
    MaxKeys = 3
INVARIANTS TypeOK AccessInTable LimitsOrdered AnswersByTheBook
CHECK_DEADLOCK FALSE

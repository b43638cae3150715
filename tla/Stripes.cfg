SPECIFICATION Spec
CONSTANTS
    Threads = {t1, t2, t3}
    Main = t1
    Total = 5
    Stripe = 2
INVARIANT ReportRight
PROPERTY Ends
CHECK_DEADLOCK FALSE

SPECIFICATION MCSpec
CONSTANTS
    NULL = NULL
    Thread = {t1, t2, t3, t4, t5}
    eventThread = eventThread
    eventPoll = eventPoll
    Main = Main
    Start = Start
    MaxWork = 3
INVARIANTS MutexSafe ThreadsInv
PROPERTIES ImplementsFairMonitor ThreadsProgress

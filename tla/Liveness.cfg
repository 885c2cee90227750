\* What must eventually happen, component by component.
SPECIFICATION Spec
CONSTANTS
    filing = filing
    discovery = discovery
    cron = cron
    scan = scan
    event1 = event1
    event2 = event2
    batch = batch
    deliver1 = deliver1
    deliver2 = deliver2
    pass1 = pass1
    pass2 = pass2
    operator1 = operator1
    req1 = req1
    score = score
    facts = facts
    model = model
    sync = sync
    hourly = hourly
    e1 = e1
    e2 = e2
    i1 = i1
    i2 = i2
    i3 = i3
    None = None
    Off = Off
PROPERTIES DeliveredOnce TasksProgress FailedSettles Settles NoneStarves
           Answered
\* Bounded components run out of work.
CHECK_DEADLOCK FALSE

\* Deadlock is not checked: there are no more rooms in the end.
CONSTANTS
    Rooms = {r1, r2}
    Users = {u1, u2}
    AcceptedUsers = {u1}
    Me = me
    MaxRequests = 3
    MaxUnread = 1
    MaxHidden = 1
SPECIFICATION Spec
INVARIANTS
    NothingThrows
    OneGameAtATime
    ChoicesAreCurrent
PROPERTIES
    RequestsAreAnswered
CHECK_DEADLOCK FALSE

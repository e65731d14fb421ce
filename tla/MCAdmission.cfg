\* A player of one session with two tickets between two rooms of one map, two
\* calls and two entries of rooms at a time; the room of POST /v1/tickets does not run.
SPECIFICATION AdmissionSpec
CONSTANTS
    p1 = p1  r1 = r1  r2 = r2  s1 = s1
    Sessions = {s1}
    Tickets = {t1, t2}
    Calls = {c1, c2}
    NoSession = NoSession
    NoTicket = NoTicket
    SessionTTL = 1
    TicketTTL = 1
    CtxTimeout = 1
    Players = {p1}
    Rooms = {r1, r2}
    Maps = {m1}
    Owner <- MCOwner
    MapOf <- MCMapOf
    Capacity <- MCCapacity
    HomeRoom = HomeRoom
    NoRoom = NoRoom
    MaxToken = 2
SYMMETRY Symmetry
CONSTRAINT TwoEntries
INVARIANTS
    AdmittedOnce
    OneRoomPlays
PROPERTIES
    ImplementsTicketBook
    AdmissionsAreTimely
    SeatsStayWithPlayers

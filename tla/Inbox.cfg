CONSTANTS
    Pusher = {p1, p2}
    None = None
    NodeSize = 2
    FirstMapSize = 1
    MaxPushes = 4
    Header = 2
    Body = 3
    MaxMessages = 2
SPECIFICATION InboxSpec
INVARIANTS InboxTypeOK RequestsArrive SizeIsRight
CHECK_DEADLOCK FALSE

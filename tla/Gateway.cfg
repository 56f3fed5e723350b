SPECIFICATION Spec
CONSTANTS
  Procs = {p, q}
  Boxes = {1, 2, 3}
  Protected = {1}
  Names = {"A"}
  Books = {}
  Calendars = {}
  Msgs = {1}
  MaxMoves = 2
  Mails = {1}
  MaxTries = 2
  Uses = {{"FolderSync"}, {"FolderCreate", "FolderUpdate"}, {"FolderCreate", "FolderDelete"}, {"MoveItems"}, {"SendMail"},
          {"Settings", "Ping", "Invalid"}}
  Faults = {"jmap", "method", "unanswered", "drop", "silent"}
CHECK_DEADLOCK FALSE
INVARIANTS SentIsSubmitted SentOnce OofTold GatewayInv
PROPERTIES ListingTrue NotesShown FolderStatus MovedIsThere
SYMMETRY Symmetry

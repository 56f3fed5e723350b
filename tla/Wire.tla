-------------------------------- MODULE Wire --------------------------------
(***************************************************************************)
(* A device sends a request, the gateway decodes and parses it: what was   *)
(* meant against what is understood.  The requests are written by the      *)
(* definitions of this module, which know nothing of the parsers.  Texts   *)
(* are single characters.                                                  *)
(***************************************************************************)
EXTENDS EasRequests

CONSTANTS
  Nodes,     \* nodes any document is made of
  MaxNodes,  \* how many
  Bytes,     \* bytes that are sent
  MaxBytes   \* how many, after the header

\* A start is no other token, a text is UTF-8, and the length of an opaque can be said.
WellFormed(n) ==
  \/ n = End
  \/ n.node = "start" /\ \E page \in 0..255, token \in 0..63, content \in BOOLEAN :
       n = Start(<<page, token>>, content) /\ (content \/ token \notin {SWITCH_PAGE, END, STR_I})
  \/ n.node = "text" /\ n = Text(n.data) /\ n.data \in Seq(0..255) /\ Utf8(n.data)
  \/ n.node = "opaque" /\ n = Opaque(n.data) /\ n.data \in Seq(0..255) /\ Len(n.data) < Word

ASSUME NodesAssumption == \A n \in Nodes : WellFormed(n)
ASSUME BytesAssumption == Bytes \subseteq 0..255 /\ MaxNodes \in Nat /\ MaxBytes \in Nat

VARIABLES
  sent,  \* the kind of the body, its bytes and what is meant
  read   \* what decode_document makes of it

vars == <<sent, read>>

Upto(S, n) == UNION {[1..k -> S] : k \in 0..n}
Joined(ss) == FlattenSeq(ss)

-----------------------------------------------------------------------------
(* Any document, any bytes *)

Starts(doc) == {i \in DOMAIN doc : doc[i].node = "start"}
Opening(doc) == {i \in Starts(doc) : doc[i].content}
Closing(doc) == {i \in DOMAIN doc : doc[i].node = "end"}

\* The elements that are open after the first n nodes.
Open(doc, n) == Cardinality(Opening(doc) \cap 1..n) - Cardinality(Closing(doc) \cap 1..n)

\* What DocumentBuilder makes: it ends no element it has not started.
Balanced(doc) == \A n \in Closing(doc) : Open(doc, n) >= 0

\* Elements around a document, or tokens before it, up to the limits.
Deep == [i \in 1..MAX_NESTING - 1 |-> Start(<<0, 5>>, TRUE)]
Long == [i \in 1..MAX_TOKENS - 3 |-> Start(<<0, 5>>, FALSE)]

\* Starts of another page than the one before, the first page being 0.
Before(doc, i) == {j \in Starts(doc) : j < i}
Switches(doc) ==
  {i \in Starts(doc) :
     \/ Before(doc, i) = {} /\ doc[i].tag[1] # 0
     \/ \E j \in Before(doc, i) : doc[j].tag[1] # doc[i].tag[1] /\ \A k \in Before(doc, i) : k <= j}

WithinLimits(doc) ==
  /\ Len(doc) + Cardinality(Switches(doc)) <= MAX_TOKENS
  /\ \A n \in Opening(doc) : Open(doc, n) <= MAX_NESTING

SendDocument ==
  \E tail \in Upto(Nodes, MaxNodes), before \in {<<>>, Deep, Long} :
    LET doc == before \o tail IN
    Balanced(doc) /\ sent = [kind |-> "document", bytes |-> encode_document(doc), meant |-> doc]

SendBytes ==
  \E tail \in Upto(Bytes, MaxBytes) : sent = [kind |-> "bytes", bytes |-> Header \o tail, meant |-> <<>>]

\* Headers that are cut off or say something else.
SendHeader ==
  \E i \in 1..4, b \in Bytes :
    sent = [kind |-> "bytes", bytes |-> Append(SubSeq(Header, 1, i - 1), b), meant |-> <<>>]

-----------------------------------------------------------------------------
(* Sync *)

OptLeaf(tag, o) == IF o = None THEN <<>> ELSE Leaf(tag, o[1])

NoNote     == [subject |-> None, body_type |-> None, body |-> None, categories |-> <<>>]
NoContact  == [tag \in ContactTags |-> None]
NoCalendar == [flat |-> [tag \in CalendarTags |-> None], attendees |-> <<>>]
NoTask     == [tag \in TaskTags |-> None]
NoFields   == [note |-> NoNote, contact |-> NoContact, calendar |-> NoCalendar, task |-> NoTask]

\* The elements of an item and the fields they stand for.
NoteData ==
  [nodes |-> Leaf(NoteSubject, <<70>>) \o Element(Body, Leaf(Type, <<49>>) \o Leaf(Data, <<71>>))
               \o Element(Categories, Leaf(Category, <<72>>) \o Leaf(Category, <<73>>)),
   means |-> [NoFields EXCEPT !.note = [subject |-> Some(<<70>>), body_type |-> Some(1),
                                        body |-> Some(<<71>>), categories |-> <<<<72>>, <<73>>>>]]]

AttendeeData(a) ==
  Element(Attendee, Leaf(AttendeeMail, a.email) \o OptLeaf(AttendeeName, a.name)
                      \o (IF a.optional THEN Leaf(AttendeeType, <<50>>) ELSE <<>>))

Invited == << [email |-> <<74>>, name |-> Some(<<75>>), optional |-> FALSE],
              [email |-> <<76>>, name |-> None, optional |-> TRUE] >>

EventData ==
  [nodes |-> Leaf(<<4, 38>>, <<77>>) \o Leaf(AllDayEvent, <<48>>)
               \o Element(Attendees, AttendeeData(Invited[1]) \o AttendeeData(Invited[2]))
               \o Leaf(<<4, 23>>, <<78>>),
   means |-> [NoFields EXCEPT !.calendar.attendees = Invited, !.calendar.flat =
                [@ EXCEPT ![<<4, 38>>] = Some(<<77>>), ![AllDayEvent] = Some(<<48>>),
                          ![<<4, 23>>] = Some(<<78>>)]]]

ContactData ==
  [nodes |-> Leaf(<<1, 31>>, <<79>>) \o Leaf(<<1, 43>>, <<80>>),
   means |-> [NoFields EXCEPT !.contact = [@ EXCEPT ![<<1, 31>>] = Some(<<79>>), ![<<1, 43>>] = Some(<<80>>)]]]

TaskData ==
  [nodes |-> Leaf(<<9, 32>>, <<81>>) \o Leaf(Complete, <<49>>),
   means |-> [NoFields EXCEPT !.task = [@ EXCEPT ![<<9, 32>>] = Some(<<81>>), ![Complete] = Some(<<49>>)]]]

Items == {NoteData, EventData, ContactData, TaskData, [nodes |-> <<>>, means |-> NoFields]}

\* Commands: some with an empty element before the item, one without an id.
ClientCommands ==
  [kind : {Add}, client : {Some(<<82>>)}, server : {None}, read : {None}, item : Items, mark : BOOLEAN]
    \cup [kind : {Change}, client : {None}, server : {Some(<<83>>)}, read : {Some(<<48>>), Some(<<49>>)},
          item : {[nodes |-> <<>>, means |-> NoFields]}, mark : {FALSE}]
    \cup [kind : {Delete, Fetch}, client : {None}, server : {None, Some(<<84>>)}, read : {None},
          item : {[nodes |-> <<>>, means |-> NoFields]}, mark : {FALSE}]

CommandNodes(c) ==
  Element(c.kind, OptLeaf(ClientId, c.client) \o OptLeaf(ServerId, c.server)
    \o (IF c.kind \in {Delete, Fetch} THEN <<>>
        ELSE Element(AppData, (IF c.mark THEN EmptyTag(<<17, 13>>) ELSE <<>>)
                                \o OptLeaf(Read, c.read) \o c.item.nodes)))

OrEmpty(o) == IF o = None THEN NoId ELSE o[1]

CommandMeans(c) ==
  [kind |-> c.kind, client_id |-> OrEmpty(c.client), server_id |-> OrEmpty(c.server),
   read |-> IF c.read = None THEN None ELSE Some(c.read[1] = <<49>>), data |-> c.item.means]

HasId(c) == c.client # None \/ c.server # None

\* Elements of a collection; the device may leave out each of them.
ClientCollections(keys, ids, windows, changes, prefs, commands) ==
  [key : keys, id : ids, window : windows, changes : changes, pref : prefs, commands : commands]

CollectionNodes(c) ==
  Element(Collection,
    OptLeaf(SyncKey, c.key) \o OptLeaf(CollectionId, c.id)
      \o (CASE c.changes = "absent" -> <<>> [] c.changes = "empty" -> EmptyTag(GetChanges)
            [] c.changes = "no" -> Leaf(GetChanges, <<48>>) [] c.changes = "yes" -> Leaf(GetChanges, <<49>>))
      \o OptLeaf(WindowSize, c.window)
      \o (IF c.pref = None THEN <<>>
          ELSE Element(Options, Element(Preference, Leaf(Type, c.pref[1]) \o Leaf(Truncation, <<53>>))))
      \o (IF c.commands = <<>> THEN <<>>
          ELSE Element(Commands, Joined([k \in DOMAIN c.commands |-> CommandNodes(c.commands[k])]))))

\* Without an element: key 0, a window of 25, changes, any body.
CollectionMeans(c) ==
  [sync_key |-> IF c.key = None THEN <<48>> ELSE c.key[1], collection_id |-> c.id[1],
   window_size |-> IF c.window = Some(<<51>>) THEN 3 ELSE 25, get_changes |-> c.changes # "no",
   commands |-> LET kept == SelectSeq(c.commands, HasId) IN [k \in DOMAIN kept |-> CommandMeans(kept[k])],
   body_pref_type |-> IF c.pref = Some(<<50>>) THEN Some(2) ELSE None,
   truncation |-> IF c.pref = None THEN None ELSE Some(5)]

Meant(cs) ==
  LET kept == SelectSeq(cs, LAMBDA c : c.id # None) IN [k \in DOMAIN kept |-> CollectionMeans(kept[k])]

SyncNodes(cs) ==
  Element(Sync, Element(Collections, Joined([k \in DOMAIN cs |-> CollectionNodes(cs[k])])))

\* Any elements with at most a command; any two commands; and two collections.
AnyElements == ClientCollections({None, Some(<<49>>)}, {None, Some(<<66>>)},
           {None, Some(<<51>>), Some(<<88>>)}, {"absent", "empty", "no", "yes"},
           {None, Some(<<50>>), Some(<<88>>)}, Upto(ClientCommands, 1))
TwoCommands == ClientCollections({Some(<<49>>)}, {Some(<<66>>)}, {None}, {"empty"}, {Some(<<50>>)},
           [1..2 -> ClientCommands])
Short == ClientCollections({None, Some(<<49>>)}, {None, Some(<<67>>)}, {Some(<<51>>)}, {"absent", "no"},
           {None}, {<<>>, <<CHOOSE c \in ClientCommands : c.kind = Delete /\ c.server # None>>})

SyncRequests == {<<c>> : c \in AnyElements \cup TwoCommands} \cup [1..2 -> Short]

SendSync ==
  \E cs \in SyncRequests :
    sent = [kind |-> "sync", bytes |-> encode_document(SyncNodes(cs)), meant |-> Meant(cs)]

-----------------------------------------------------------------------------
(* Other requests *)

SentMoves == [msg : {None, Some(<<65>>)}, src : {None, Some(<<66>>)}, dst : {None, Some(<<67>>)}]

MoveNodes(m) == Element(Move, OptLeaf(SrcMsgId, m.msg) \o OptLeaf(SrcFldId, m.src) \o OptLeaf(DstFldId, m.dst))

MovesMeant(ms) ==
  LET kept == SelectSeq(ms, LAMBDA m : m.msg # None /\ m.src # None /\ m.dst # None) IN
  [k \in DOMAIN kept |-> [src_msg_id |-> kept[k].msg[1], src_fld_id |-> kept[k].src[1],
                          dst_fld_id |-> kept[k].dst[1]]]

SendMoves ==
  \E ms \in Upto(SentMoves, 2) :
    sent = [kind |-> "moves", meant |-> MovesMeant(ms),
            bytes |-> encode_document(Element(Moves, Joined([k \in DOMAIN ms |-> MoveNodes(ms[k])])))]

SentFetches == [store : {None, Some(<<65>>)}, col : {None, Some(<<66>>)}, item : {None, Some(<<67>>)},
                long : {None, Some(<<68>>)}]

\* A Fetch of an ItemOperations.
SendFetch ==
  \E f \in SentFetches :
    sent = [kind |-> "fetch",
            bytes |-> encode_document(Element(<<20, 5>>, Element(<<20, 6>>, OptLeaf(FetchStore, f.store)
                        \o OptLeaf(CollectionId, f.col) \o OptLeaf(ServerId, f.item) \o OptLeaf(LongId, f.long)))),
            meant |-> IF f.store # None /\ (f.long # None \/ (f.col # None /\ f.item # None))
              THEN Some([store |-> f.store[1], collection_id |-> f.col, server_id |-> f.item, long_id |-> f.long])
              ELSE None]

\* "0-9", a range that does not parse, or none.
SentSearches == [name : {None, Some(<<65>>)}, class : {None, Some(<<66>>)}, text : {None, Some(<<67>>)},
                 range : {None, Some(<<48, 45, 57>>), Some(<<88>>)}, pref : {None, Some(<<49>>)}]

SendSearch ==
  \E s \in SentSearches :
    sent = [kind |-> "search",
            bytes |-> encode_document(Element(<<15, 5>>, Element(<<15, 7>>,
              OptLeaf(SearchName, s.name) \o Element(<<15, 9>>, OptLeaf(Class, s.class) \o OptLeaf(FreeText, s.text))
                \o Element(<<15, 10>>, OptLeaf(SearchRange, s.range) \o Element(Preference, OptLeaf(Type, s.pref)))))),
            meant |-> IF s.name = None THEN None ELSE Some(
              [store_name |-> s.name[1], class |-> s.class, free_text |-> s.text,
               range |-> IF s.range = Some(<<48, 45, 57>>) THEN Some([first |-> 0, last |-> 9]) ELSE None,
               body_pref_type |-> IF s.pref = None THEN None ELSE Some(1), truncation |-> None])]

\* SendMail in WBXML; SmartReply names the item it answers.
SendMime ==
  \E mime \in {None, Some(<<1, 0, 3>>)}, save \in BOOLEAN, item \in {None, Some(<<66>>)} :
    sent = [kind |-> "mime",
            bytes |-> encode_document(Element(<<21, 7>>, (IF save THEN EmptyTag(SaveInSent) ELSE <<>>)
              \o (IF item = None THEN <<>> ELSE Element(<<21, 11>>, Leaf(ItemId, item[1])))
              \o (IF mime = None THEN <<>> ELSE OpaqueLeaf(Mime, mime[1])))),
            meant |-> IF mime = None THEN None ELSE Some([mime |-> mime[1], save |-> save, item |-> item])]

-----------------------------------------------------------------------------
(* Specification *)

Unread == Fail("Unread")

Init ==
  /\ \/ SendDocument \/ SendBytes \/ SendHeader \/ SendSync
     \/ SendMoves \/ SendFetch \/ SendSearch \/ SendMime
  /\ read = Unread

Receive == read = Unread /\ read' = decode_document(sent.bytes) /\ UNCHANGED sent

Spec == Init /\ [][Receive]_vars

-----------------------------------------------------------------------------
(* Safety *)

Received(kind) == sent.kind = kind /\ read # Unread

\* What is sent is read as what was meant, without the NULs in texts: every page
\* switch, every length and every text; and only a document beyond the limits of
\* the decoder is refused.
RoundTrip ==
  Received("document") =>
    IF WithinLimits(sent.meant)
      THEN read = Decoded([i \in DOMAIN sent.meant |->
             LET n == sent.meant[i] IN IF n.node = "text" THEN Text(WithoutNul(n.data)) ELSE n])
      ELSE read.error \in {"NestingLimit", "TokenLimit"}

\* Whatever bytes a device sends, what was read of them can be sent and is read
\* as the same: no integer that is too long, no page without a token, no element
\* left open and no end too many makes a document that means something else.
Reread ==
  Received("bytes") /\ read.error = "none" => decode_document(encode_document(read.nodes)) = read

\* The collections of a Sync and their commands are understood as they were
\* meant, in their order: no text of a command is taken for one of its
\* collection or of another command, no field of an item for one of another
\* class, and what has no id is left out.  No empty element is within an attendee
\* or a body: extract_calendar_fields and extract_note_fields never leave one.
SyncUnderstood == Received("sync") => sync_collections(read.nodes) = sent.meant

\* The moves of a MoveItems, the item of a Fetch, a Search and the message of a
\* SendMail are understood as they were meant, and what is not complete is not.
OthersUnderstood ==
  /\ Received("moves")  => move_item_requests(read.nodes) = sent.meant
  /\ Received("fetch")  => item_operations_fetch(read.nodes) = sent.meant
  /\ Received("search") => search_request(read.nodes) = sent.meant
  /\ Received("mime")   => compose_mail_request(read.nodes) = sent.meant
=============================================================================

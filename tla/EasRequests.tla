----------------------------- MODULE EasRequests -----------------------------
(***************************************************************************)
(* What wbxml/eas.rs makes of the document of a request: the collections   *)
(* and commands of a Sync, the moves of a MoveItems, and the elements that *)
(* the other commands look for.  Every parser goes through the nodes once. *)
(* An Option is a sequence of at most one element.                         *)
(***************************************************************************)
EXTENDS Wbxml, SequencesExt

None    == <<>>
Some(x) == <<x>>
NoId    == <<>>

\* The tags that are looked at: a code page and a token of it.
Sync         == <<0, 5>>
Add          == <<0, 7>>
Change       == <<0, 8>>
Delete       == <<0, 9>>
Fetch        == <<0, 10>>
SyncKey      == <<0, 11>>
ClientId     == <<0, 12>>
ServerId     == <<0, 13>>
Collection   == <<0, 15>>
Class        == <<0, 16>>
CollectionId == <<0, 18>>
GetChanges   == <<0, 19>>
WindowSize   == <<0, 21>>
Commands     == <<0, 22>>
Options      == <<0, 23>>
Collections  == <<0, 28>>
AppData      == <<0, 29>>
Read         == <<2, 21>>
Type         == <<17, 6>>
Truncation   == <<17, 7>>
Preference   == <<17, 5>>
Body         == <<17, 10>>
Data         == <<17, 11>>
NoteSubject  == <<23, 5>>
Category     == <<23, 9>>
Categories   == <<23, 8>>
AllDayEvent  == <<4, 6>>
Attendees    == <<4, 7>>
Attendee     == <<4, 8>>
AttendeeMail == <<4, 9>>
AttendeeName == <<4, 10>>
AttendeeType == <<4, 42>>
Complete     == <<9, 10>>
Moves        == <<5, 5>>
Move         == <<5, 6>>
SrcMsgId     == <<5, 7>>
SrcFldId     == <<5, 8>>
DstFldId     == <<5, 9>>
FetchStore   == <<20, 7>>
SaveInSent   == <<21, 8>>
ItemId       == <<21, 13>>
Mime         == <<21, 16>>
SearchName   == <<15, 8>>
SearchRange  == <<15, 11>>
FreeText     == <<15, 21>>
LongId       == <<15, 24>>

\* Flat elements of a contact, of an event and of a task.
ContactTags  == {1} \X {19, 25, 27, 28, 29, 30, 31, 39, 40, 41, 43}
CalendarTags == {4} \X {6, 18, 23, 38, 39}
TaskTags     == {9} \X {10, 12, 32}

-----------------------------------------------------------------------------
(* DocumentBuilder *)

Element(tag, inner) == <<Start(tag, TRUE)>> \o inner \o <<End>>
Leaf(tag, s)        == Element(tag, <<Text(s)>>)
OpaqueLeaf(tag, s)  == Element(tag, <<Opaque(s)>>)
EmptyTag(tag)       == <<Start(tag, FALSE)>>

-----------------------------------------------------------------------------
(* Elements looked for anywhere in a document *)

\* Indices of a sequence that are in a set, in their order.
InOrder(s, S) == SelectSeq([i \in DOMAIN s |-> i], LAMBDA i : i \in S)

\* Nodes of a kind right after the start of an element.
At(doc, tag, kind) ==
  {i \in 2..Len(doc) : doc[i].node = kind /\ doc[i - 1].node = "start" /\ doc[i - 1].tag = tag}

After(doc, tag, kind) ==
  LET at == At(doc, tag, kind) IN IF at = {} THEN None ELSE Some(doc[InOrder(doc, at)[1]].data)

find_text_after(doc, tag)   == After(doc, tag, "text")
find_opaque_after(doc, tag) == After(doc, tag, "opaque")
find_all_text_after(doc, tag) ==
  LET at == InOrder(doc, At(doc, tag, "text")) IN [k \in DOMAIN at |-> doc[at[k]].data]
contains_token(doc, tag) == \E i \in DOMAIN doc : doc[i].node = "start" /\ doc[i].tag = tag

\* A Fetch needs a Store and either both ids of an item or a LongId.
item_operations_fetch(doc) ==
  LET store == find_text_after(doc, FetchStore)
      col   == find_text_after(doc, CollectionId)
      item  == find_text_after(doc, ServerId)
      long  == find_text_after(doc, LongId)
  IN  IF store = None \/ (long = None /\ (col = None \/ item = None)) THEN None
      ELSE Some([store |-> store[1], collection_id |-> col, server_id |-> item, long_id |-> long])

\* A digit, as the numbers of the model are; other texts do not parse.
Number(s) == IF Len(s) = 1 /\ s[1] \in 48..57 THEN Some(s[1] - 48) ELSE None
Parsed(o) == IF o = None THEN None ELSE Number(o[1])

\* The first and the last result that is asked for.
RangeOf(o) ==
  IF o = None THEN None
  ELSE IF Len(o[1]) = 3 /\ o[1][1] \in 48..57 /\ o[1][2] = 45 /\ o[1][3] \in 48..57
    THEN Some([first |-> o[1][1] - 48, last |-> o[1][3] - 48]) ELSE None

search_request(doc) ==
  LET name == find_text_after(doc, SearchName)
  IN  IF name = None THEN None
      ELSE Some([store_name |-> name[1],
                 class      |-> find_text_after(doc, Class),
                 free_text  |-> find_text_after(doc, FreeText),
                 range      |-> RangeOf(find_text_after(doc, SearchRange)),
                 body_pref_type |-> Parsed(find_text_after(doc, Type)),
                 truncation     |-> Parsed(find_text_after(doc, Truncation))])

compose_mail_request(doc) ==
  LET mime == find_opaque_after(doc, Mime) IN
  IF mime = None THEN None
  ELSE Some([mime |-> mime[1], save |-> contains_token(doc, SaveInSent),
             item |-> find_text_after(doc, ItemId)])

-----------------------------------------------------------------------------
(* ApplicationData *)

\* The elements around every node.  An element without content is never left.
Path(nodes) ==
  LET path[i \in 0..Len(nodes)] ==
        IF i = 0 THEN <<>>
        ELSE CASE nodes[i].node = "start" -> Append(path[i - 1], nodes[i].tag)
               [] nodes[i].node = "end" /\ path[i - 1] # <<>> -> Front(path[i - 1])
               [] OTHER -> path[i - 1]
  IN  path

\* Texts of the document in order, each with the elements around it.
Texts(nodes) ==
  LET path == Path(nodes)
      at   == InOrder(nodes, {i \in DOMAIN nodes : nodes[i].node = "text" /\ path[i] # <<>>})
  IN  [k \in DOMAIN at |-> [path |-> path[at[k]], data |-> nodes[at[k]].data]]

\* The last text in an element of this tag.
LastIn(texts, tag) ==
  LET own == SelectSeq(texts, LAMBDA t : Last(t.path) = tag) IN
  IF own = <<>> THEN None ELSE Some(Last(own).data)

extract_contact_fields(nodes) == LET texts == Texts(nodes) IN [tag \in ContactTags |-> LastIn(texts, tag)]
extract_task_fields(nodes)    == LET texts == Texts(nodes) IN [tag \in TaskTags |-> LastIn(texts, tag)]

InBody(t, tag) == Len(t.path) > 1 /\ Last(t.path) = tag /\ Last(Front(t.path)) = Body

LastInBody(texts, tag) ==
  LET own == SelectSeq(texts, LAMBDA t : InBody(t, tag)) IN
  IF own = <<>> THEN None ELSE Some(Last(own).data)

\* A category is the last text before an end at which it is the innermost element.
CategoriesOf(nodes) ==
  LET path    == Path(nodes)
      In(i)   == path[i - 1] # <<>> /\ Last(path[i - 1]) = Category
      ends    == {i \in DOMAIN nodes : nodes[i].node = "end" /\ In(i)}
      held(e) == {i \in 1..e - 1 : /\ nodes[i].node = "text" /\ In(i)
                                    /\ \A f \in ends : ~(i < f /\ f < e)}
      kept    == InOrder(nodes, {e \in ends : held(e) # {}})
  IN  [k \in DOMAIN kept |-> nodes[Last(InOrder(nodes, held(kept[k])))].data]

extract_note_fields(nodes) ==
  LET texts == Texts(nodes) IN
  [subject    |-> LastIn(texts, NoteSubject),
   body_type  |-> Parsed(LastInBody(texts, Type)),
   body       |-> LastInBody(texts, Data),
   categories |-> CategoriesOf(nodes)]

\* An attendee lasts from its start to an end at which it is the innermost element.
CalendarNode(st, n) ==
  LET top == Last(st.path) IN
  CASE n.node = "start" ->
         [st EXCEPT !.path = Append(@, n.tag),
                    !.attendee = IF n.tag = Attendee
                      THEN Some([email |-> NoId, name |-> None, optional |-> FALSE]) ELSE @]
    [] n.node = "text" /\ st.path # <<>> /\ st.attendee # None ->
         [st EXCEPT !.attendee[1] =
            CASE top = AttendeeMail -> [@ EXCEPT !.email = n.data]
              [] top = AttendeeName -> [@ EXCEPT !.name = Some(n.data)]
              [] top = AttendeeType -> [@ EXCEPT !.optional = (n.data = <<50>>)]
              [] OTHER -> @]
    [] n.node = "text" /\ st.path # <<>> /\ st.attendee = None /\ top \in CalendarTags ->
         [st EXCEPT !.flat[top] = Some(n.data)]
    [] n.node = "end" /\ st.path # <<>> ->
         [st EXCEPT !.path = Front(@),
                    !.attendee = IF top = Attendee THEN None ELSE @,
                    !.attendees = IF top = Attendee /\ st.attendee # None /\ st.attendee[1].email # NoId
                      THEN Append(@, st.attendee[1]) ELSE @]
    [] OTHER -> st

extract_calendar_fields(nodes) ==
  LET st == Through(CalendarNode, [path |-> <<>>, attendee |-> None, attendees |-> <<>>,
                                   flat |-> [tag \in CalendarTags |-> None]], nodes)
  IN  [flat |-> st.flat, attendees |-> st.attendees]

-----------------------------------------------------------------------------
(* Sync *)

command_kind(tag) == tag \in {Add, Change, Delete, Fetch}

DefaultCollection == [sync_key |-> <<48>>, collection_id |-> NoId, window_size |-> 25,
                      get_changes |-> TRUE, commands |-> <<>>, body_pref_type |-> None,
                      truncation |-> None]

NewCommand(tag) == [kind |-> tag, client_id |-> NoId, server_id |-> NoId, read |-> None, data |-> <<>>]

\* What is known between two nodes: the collection, the command and the index of
\* its start, whether Commands is open, the element a text is expected for.
Parsing == [i |-> 1, out |-> <<>>, current |-> None, command |-> None, start |-> 0,
            commands |-> FALSE, pending |-> None, stack |-> <<>>]

Opens(st, n) == [st EXCEPT !.stack = IF n.content THEN Append(@, n.tag) ELSE @]

StartsCommand(st, n) ==
  st.commands /\ st.command = None /\ st.stack # <<>> /\ Last(st.stack) = Commands

StartNode(st, n) ==
  CASE n.tag = Collection -> Opens([st EXCEPT !.current = Some(DefaultCollection)], n)
    [] n.tag # Collection /\ st.current = None -> Opens(st, n)
    [] OTHER ->
         IF n.tag = Commands THEN Opens([st EXCEPT !.commands = TRUE], n)
         ELSE IF StartsCommand(st, n)
           THEN Opens([st EXCEPT !.start = st.i, !.command =
                  IF command_kind(n.tag) THEN Some(NewCommand(n.tag)) ELSE None], n)
         ELSE Opens([st EXCEPT !.pending = Some(n.tag)], n)

CommandText(command, tag, s) ==
  CASE tag = ServerId -> [command EXCEPT !.server_id = s]
    [] tag = ClientId -> [command EXCEPT !.client_id = s]
    [] tag = Read     -> [command EXCEPT !.read = Some(s = <<49>>)]
    [] OTHER          -> command

CollectionText(collection, tag, s) ==
  CASE tag = SyncKey      -> [collection EXCEPT !.sync_key = s]
    [] tag = CollectionId -> [collection EXCEPT !.collection_id = s]
    [] tag = WindowSize   -> [collection EXCEPT !.window_size = IF Number(s) = None THEN 25 ELSE Number(s)[1]]
    [] tag = GetChanges   -> [collection EXCEPT !.get_changes = (s # <<48>>)]
    [] tag = Type         -> [collection EXCEPT !.body_pref_type = Number(s)]
    [] tag = Truncation   -> [collection EXCEPT !.truncation = Number(s)]
    [] OTHER              -> collection

\* Mutant: a text in a command is taken for one of its collection as well.
text_of_both(st, n) ==
  IF st.pending = None \/ st.current = None THEN st
  ELSE LET s == [st EXCEPT !.pending = None, !.current[1] = CollectionText(@, st.pending[1], n.data)] IN
       IF st.command = None THEN s
       ELSE [s EXCEPT !.command[1] = CommandText(@, st.pending[1], n.data)]

TextNode(st, n) ==
  IF st.pending = None \/ (st.command = None /\ st.current = None) THEN st
  ELSE LET s == [st EXCEPT !.pending = None] IN
       IF st.command # None
         THEN [s EXCEPT !.command[1] = CommandText(@, st.pending[1], n.data)]
         ELSE [s EXCEPT !.current[1] = CollectionText(@, st.pending[1], n.data)]

\* The command that ends takes its fields from the nodes it holds; without an id
\* it is left out.
EndCommand(st, doc) ==
  IF st.current = None \/ st.command = None THEN [st EXCEPT !.command = None]
  ELSE LET nodes   == SubSeq(doc, st.start + 1, st.i - 1)
           command == [st.command[1] EXCEPT !.data =
             [note |-> extract_note_fields(nodes), contact |-> extract_contact_fields(nodes),
              calendar |-> extract_calendar_fields(nodes), task |-> extract_task_fields(nodes)]]
       IN  [st EXCEPT !.command = None,
                      !.current[1].commands = IF NoId \in {command.server_id} \cap {command.client_id}
                        THEN @ ELSE Append(@, command)]

\* A collection without an id is left out.
EndCollection(st) ==
  IF st.current = None THEN st
  ELSE [st EXCEPT !.current = None,
                  !.out = IF st.current[1].collection_id = NoId THEN @ ELSE Append(@, st.current[1])]

EndNode(st, doc) ==
  IF st.stack = <<>> THEN [st EXCEPT !.pending = None]
  ELSE LET tag == Last(st.stack)
           s   == [st EXCEPT !.pending = None, !.stack = Front(@),
                             !.commands = @ /\ tag # Commands]
       IN  CASE command_kind(tag) -> EndCommand(s, doc)
             [] tag = Collection  -> EndCollection(s)
             [] OTHER             -> s

sync_collections(doc) ==
  LET Node(st, n) ==
        [CASE n.node = "start"  -> StartNode(st, n)
           [] n.node = "text"   -> TextNode(st, n)
           [] n.node = "end"    -> EndNode(st, doc)
           [] n.node = "opaque" -> st
         EXCEPT !.i = @ + 1]
  IN  Through(Node, Parsing, doc).out

-----------------------------------------------------------------------------
(* MoveItems *)

NoMove == [src_msg_id |-> NoId, src_fld_id |-> NoId, dst_fld_id |-> NoId]

MoveText(move, tag, s) ==
  CASE tag = SrcMsgId -> [move EXCEPT !.src_msg_id = s]
    [] tag = SrcFldId -> [move EXCEPT !.src_fld_id = s]
    [] tag = DstFldId -> [move EXCEPT !.dst_fld_id = s]
    [] OTHER          -> move

\* Mutant: a move that lacks an element is taken.
AnyMove(move) == TRUE

CompleteMove(move) == NoId \notin {move.src_msg_id, move.src_fld_id, move.dst_fld_id}

EndMove(st) ==
  IF st.stack = <<>> THEN st
  ELSE IF Last(st.stack) # Move \/ st.current = None THEN [st EXCEPT !.stack = Front(@)]
  ELSE [st EXCEPT !.stack = Front(@), !.current = None,
                  !.out = IF CompleteMove(st.current[1]) THEN Append(@, st.current[1]) ELSE @]

MoveNode(st, n) ==
  CASE n.node = "start" /\ n.tag = Move -> Opens([st EXCEPT !.current = Some(NoMove)], n)
    [] n.node = "start" /\ n.tag # Move ->
         Opens([st EXCEPT !.pending = IF st.current = None THEN @ ELSE Some(n.tag)], n)
    [] n.node = "text" /\ st.current # None /\ st.pending # None ->
         [st EXCEPT !.current[1] = MoveText(@, st.pending[1], n.data), !.pending = None]
    [] n.node = "end" -> EndMove([st EXCEPT !.pending = None])
    [] OTHER -> st

move_item_requests(doc) == Through(MoveNode, Parsing, doc).out
=============================================================================

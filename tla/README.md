# TLA+ models of stalwart-sync-gateway

The gateway answers Exchange ActiveSync (EAS) requests of phones by JMAP calls to
a mail server. This directory holds TLA+ modules that model its code, TLC
configurations that check them on small instances, and TLAPS proofs for every
instance. Paths below are relative to the repository.

## 1. The system

Every request is one async task of an axum server. A task keeps nothing between
requests; what survives is in the *state store* and on the *mail server*. The
tasks of one device can overlap, and nothing orders them: there is no lock and no
compare-and-set between reading a record and writing it.

| Component | State it keeps | Operations | Hard behaviour | What makes it correct |
|---|---|---|---|---|
| **Mail Sync** `activesync.rs` 1100-1520 | one `SyncRecord` (SyncKey, seen ids) per user, device, collection | key check, client commands, list page, confirm deletions, write record, answer | overlap of handlers, lost answers, calls that fail one by one, a window that hides older mail | the device never shows a stale message forever, is never told to delete a live one, is given every message it counts as seen |
| **Item Sync** contacts 2126, calendar 2449, tasks 2795 | `SyncRecord` and an item-state set (id, hash) | the same, with a hash diff and client Add/Change/Delete | two separate writes whose errors are only logged, echo suppression, window cut | device, item states and server agree up to what is in flight |
| **Notes Sync** 3083, `jmap/notes.rs` | the same, and notes as immutable emails in a mailbox | list, adopt foreign notes, save (import, then destroy), destroy, create the mailbox | two emails for one note between import and destroy, an edit that overlaps another edit or a Delete, adoption raced, a method-level error read as an empty answer | the newest edit survives, a note has one email and one stable id |
| **State store** `state.rs` | SQLite tables or two in-memory maps | get, put, item_states, put_item_states | a statement of the replacement of a set fails, a crash inside it, a restart with an in-memory store | an atomic map |
| **Folders** 3435-3730, `client.rs` 300-345 | none (the server's mailboxes) | FolderSync, Create, Delete, Update | other clients between two calls, status mapping, non-mail folders | an answer is true of the account |
| **MoveItems** 1029 | none | one Email/set per item | partial failure, an item moved twice | a success status means moved |
| **SendMail** 603, `client.rs` 1898 | none | upload, import, submit | retry after a lost answer | sent at most once per request, acknowledged only when sent |
| **WBXML codec, parser** `wbxml/` | none | decode, encode, extract requests | limits, malformed input, an element that is taken for one of another parent | what was meant is what is read |
| **Search, ItemOperations** 330-578 | none | parse, one read only JMAP call | range parsing | |
| **Settings** 781, `vacation.rs` | none (VacationResponse) | set and get Oof | a failed set, a failed read | the state told is one the account had |
| **Dispatch, Ping, Provision, GetItemEstimate** 2-330 | none | the checks before a handler, constants | | |
| **HTTP server, config, metrics, Autodiscover** | counters | wiring | | |

Interactions: `sync_mail` loops over the collections of a request and calls the
handler of each one's class; each handler calls the state store and the JMAP
client; the JMAP client calls the mail server over HTTP. Other clients (webmail,
IMAP, delivery) change the mail server at any time. The device keeps its own
copy, its SyncKey and its queue of unacknowledged commands, and decides alone
when to retry, to give up waiting, or to start again with SyncKey 0.

`PROJECT.json` lists, under `hazards`, what this code is exposed to at which
line, and under `components` what is modelled and what is not.

## 2. Modules

| Module | What it is | Uses |
|---|---|---|
| `MailSync` | mail Sync of one (user, device, mailbox): handlers, record, device, mail server | |
| `MailSyncLive` | the same with a moment after which disturbances end, fairness, convergence | `MailSync` |
| `MailSyncProofs` | theorems about `MailSync` | `MailSync` |
| `ItemSync` | Sync of one collection of contacts, calendar events or tasks | |
| `ItemSyncLive` | the same with a calm, fairness and convergence | `ItemSync` |
| `ItemProofs` | theorems about `ItemSync` | `ItemSync` |
| `NoteStore` | the functions of `jmap/notes.rs`, one JMAP call per step, several requests at once | |
| `NoteProofs` | theorems about `NoteStore`: the newest edit, stable ids, one email per note, deleted notes | `NoteStore` |
| `NoteSync` | Sync of the Notes collection on top of them | `NoteStore` |
| `NoteSyncProofs` | the invariant of `NoteSync`: what request, note function, answer and device agree on | `NoteSync`, `NoteProofs` |
| `NoteAnswerProofs` | theorems about what its answers tell the device | `NoteSyncProofs` |
| `StateStore` | what the trait `StateStore` promises its callers: atomic maps (abstract) | |
| `StoreBackends` | the memory and the SQLite store, statement by statement | implements `StateStore` |
| `StoreProofs` | the proof that they do | `StoreBackends` |
| `Mailboxes` | FolderSync, FolderCreate, FolderUpdate, FolderDelete, MoveItems and the mailbox tree | |
| `Gateway` | dispatch, SendMail, Settings and Ping at work beside them; devices, other clients | `Mailboxes` |
| `GatewayProofs` | theorems about both | `Gateway` |
| `Wbxml` | encoder and decoder, byte by byte, with their limits | |
| `EasRequests` | the document builder and every request parser of `wbxml/eas.rs` | `Wbxml` |
| `Wire` | a device writes a request, the gateway decodes and parses it | `EasRequests` |
| `CodecProofs` | theorems about `Wbxml`, for every document and all bytes | `Wire` |
| `MCMailSync`, `MCItemSync`, `MCNoteStore`, `MCNoteSync`, `MCGateway`, `MCWire` | sets and symmetry for TLC | |

### MailSync

One action is the code from one await point to the next. `h[r]` holds the local
variables of the handler in slot `r`; `h[r].pc` says at which await it stands:

| `pc` | the task waits for | actions |
|---|---|---|
| `load` | `state.get` | `Load`, `LoadFails` (`CheckKey`) |
| `commands` | `Email/set` for the next client command, then `Email/query` or `state.put` | `ApplyCommand`, `CommandRejected`, `JmapFails`, `QueryWindow`, `PutNoChanges`, `SkipPut`, `PutFails` |
| `confirm` | `Email/get` of the candidates | `ConfirmMissing`, `ConfirmFails` |
| `put` | `state.put` | `PutChanges`, `PutFails` |
| `reply` | the end of the request | `Receive`, `Discard`, `Drop` |

A call takes effect and returns in one step; a call whose effect happens and
whose answer is lost is covered by `Drop` for the whole task (`Drop` may happen
right after any step), which is what the device then sees. `stored` is the
`SyncRecord` of the collection; `NoRecord` has key 0, which no stored record has.
SyncKeys are the numbers they print; `next_sync_key` saturates at `MaxKey`.
Message ids are ranks in receivedAt order, so `Newest` is the page of
`Email/query`.

`server` (the mailbox), `device` (what the phone shows, its SyncKey, its queue)
and their actions are external: the server does what the JMAP calls rely on, the
device does what the answers ask for. It applies Status 1, starts over with
SyncKey 0 and nothing on Status 3, sends the same again on Status 5 or after a
lost answer. `told`, `carried` and `away` are history variables; no action of the
code reads them.

Left out: the content of messages, Fetch commands (they only read), client
commands mail Sync ignores (Add, Change without Read), the other collections of
a request (each is another instance).

### Properties of MailSync

- `NoFalseDelete`: a Delete is only sent for a message that was outside the
  mailbox at some time while the request was handled.
- `DeviceTracked`: in sync (the device's SyncKey is the stored one) the record
  tracks everything the device shows; otherwise a message removed from the
  mailbox would stay on the device forever.
- `NothingHidden`: in sync, whatever the record counts as seen was really given
  to the device since its last reset, or was carried over by an initial Sync.
- `NoReplayedAdds`: an answer adds nothing the device already shows.
- `AckedDeletesDone`, `AckedMarksDone`: when a request is acknowledged, its
  Deletes are done and every message has the read flag of its last command.
- `FirstSyncComplete`: an initial answer without MoreAvailable is complete.
- `KeyNamesState`: a SyncKey above 1 never stands for two seen sets in a row.
- `Converges`: once disturbances end, the device comes to show the page and
  nothing that left the mailbox, and stays there.

### ItemSync

`sync_contacts_collection`, `sync_calendar_collection` and `sync_tasks_collection`
are copies of one another, so one module stands for the three and its `map` points
at all of them. `key` is the SyncKey of the `SyncRecord`, `base` the item states
(id to hash), `h` the local variables of the running handler:

| `h.pc` | the task waits for | actions |
|---|---|---|
| `load` | `state.get`, `state.item_states` | `Load`, `LoadFails` |
| `commands` | the JMAP call of the next client command, then the listing | `ApplyAdd`, `AddFails`, `ApplyChange`, `ChangeFails`, `ApplyDelete`, `DeleteFails`, `List`, `ListFails` |
| `put` | `state.put` | `PutRecord`, `PutRecordFails` |
| `items` | `state.put_item_states` | `PutItems`, `PutItemsFails` |
| `reply` | the end of the request | `Receive`, `Drop` |

An item's content is a number and its hash the content itself: two contents that
hash alike are one value of the model. A Change replaces the content; the code
leaves out absent fields, so the server may keep something else, which is the
same step followed by an edit of another client. A call whose effect happens and
whose answer fails is the failing action followed by the effect as another
client's. The commands of a request are applied in any order, as a device sends
at most one per item. The store keeps its contents (the loss of an in-memory
store is in `MailSync`). The device sends one request at a time and edits between
requests; on Status 5 of a command it keeps the edit and sends it again.

What the code gives up is recorded in `missed`, the ids for which item states and
device may differ though the SyncKeys agree. Each way into it is an operator:

- `Carried`: SyncKey 0 does not clear the item states, so a device that was set up
  again is not sent what did not change since (2142).
- `Swallowed`: another client edits an item between the device's write and the
  listing; echo suppression takes it for the device's own write (2251).
- `Undeleted`: a Delete fails and is only logged; the item is as it was, so it is
  never sent again (2203).
- `Unasked`: with GetChanges 0 the changes are stored and not sent (2342).
- `Forgotten`: the item states could not be read and an item is gone since (2145).
- `Unsaved`: one of the two writes failed (2299, 2313).

An id leaves `missed` when a later diff sends it or the device starts over. Fetch commands, which
the code ignores here, are left out.

Properties:

- `ViewIsBase`: in sync, the device shows exactly what the item states say of
  every item it did not edit and that is not in `missed`: a diff against the item
  states is then a diff against the device.
- `NoEcho`: what the device wrote in a request is not sent back in its answer.
- `NoFalseDelete`: a Delete in an answer names an item that was absent from the
  collection at some time during the request. It needs a window that holds the
  whole collection: `item_window` shows what happens otherwise.
- `Converges`: once edits and failures end, the device comes to show the
  collection, `missed` apart, and stays so.

### NoteStore

A note is a family of emails in the Notes mailbox with one `noteid-*` keyword. An
edit imports a new email and then destroys the one it looked up before; there is
no transaction, and nothing orders two requests. `stored`, `born` and `mail` are
the mailbox, `given` the generated keywords, and `jobs[p]` says which function of
`notes.rs` request `p` is in and which call it makes next:

| Function | steps of `jobs[p]` |
|---|---|
| `save_note` (new) | `import` |
| `save_note` (known id) | `resolve`, `import`, `cleanup` |
| `destroy_note` | `resolve`, `destroy` |
| `get_note` | `resolve`, `fetch` |
| `list_notes`, `adopt_notes` | `query`, `adopt` |

Every call may fail, be done without an answer (`unanswered`), or be the last one
of a request that is dropped. `api_call` does not look at method-level errors
(`method`), and two functions of `notes.rs` do not either: `resolve_note_email_id`
(202-216) takes one for no email (`ResolveErrs`), `list_notes` (258-309) for an empty
mailbox (`ListErrs`). In the other functions such an error has the effect of a
failed call. `resolve` takes any email a `hasKeyword` query with
limit 1 may return. A listing computes its hashes before it adopts the emails
without a keyword, and an adoption that fails is only logged. `OthersCreate` and
`OthersRemove` are a mail client in the same mailbox (external).

- `NewestSurvives`: the last imported revision of a note stays unless somebody
  deletes the note, whatever overlaps and whatever fails.
- `OneRevision`: outside an edit a note has one email. `messy` names the
  exceptions: a cleanup failed or was dropped, an import went unanswered, the
  lookup of an edit was answered with an error, two edits overlapped.
- `DeletedIsGone`: a note that a Delete found no email of, or whose newest email it
  destroyed, stays away until it is saved again, unless it is `messy` or the Delete's
  lookup was answered with an error (`overlooked`), which the comment of `destroy_note`
  does not except (546): without it TLC finds a note that was deleted and is there.
- `StableId`: the id of a note never changes while its email lives, unless two
  listings adopted the email at once (`raced`).

Subjects, which the hash also covers, are the same for all notes: an edit of the
body alone is the case the hash sees least of. HTML bodies, the MIME text, and
the categories are not told apart.

### NoteSync

`sync_notes_collection` has the shape of the item handlers, but each JMAP call is
a function of `NoteStore` with steps of its own. `h.pc` is `load`, `commands`,
`list`, `put`, `items`, `fetch` or `reply`; `h.cmd` is the client command at work
and `jobs[Gw]` the function it is in. `OthersSave` is a whole edit of another
device through the gateway; what a mail client does is in `NoteStore`.

- `UpdateComes`: between two requests of a device in sync, a note it shows
  wrongly or not at all is one the next diff finds. The exceptions are `messy`
  notes, notes with two revisions of one second (`Blurred`), whose hashes are
  equal, and `missed`, whose ways in are those of `ItemSync` and one more: a note
  whose body could not be fetched is left out of the answer although its item
  state is stored (3310).
- `NoFalseDelete`: as in `ItemSync`. `away` collects the notes that had no email at
  some time since the request was sent; a request whose listing was answered with a
  method-level error is excepted (`blind`). Its item states are emptied as well, so
  that the next listing sends every note again: `UpdateComes` needs no exception for
  it. Without `blind` TLC finds the Delete of a note that was there throughout.

### StateStore and StoreBackends

`StateStore` is the promise: `records` and `itemStates` are maps, a call
(`calls[h]` is idle, pending or done) takes effect at one instant or answers an
error without effect, and a restart loses the calls and, unless `durable`, the
maps. `StoreBackends` is the code: the memory store does each call in one step
under its lock; the SQLite store takes the mutex of its connection (`lock`) and
executes a statement per step, `put_item_states` as a transaction (`BeginAndDelete`,
`InsertItem` for each item, `Commit`). `view` is what the connection sees,
`itemStates` what is committed. A statement may fail at any step (`SqliteFails`,
the transaction is dropped), the process may end at any step (`Crash`), and `Open`
migrates the file, an older one without the table of item states included. The
Redis setting gives the memory store, as in the code.

The refinement maps every variable to that of its name, and `durable` to
`backend = "sqlite"`; `Implements == Store!Spec` is checked and proved.

### Mailboxes and Gateway

Several requests of one account are at work at once (`jobs`: the request, the
call it makes next, what it answers); the state is on the mail server, which is
external: `box` (parent and name of each mailbox), `made` (mailboxes that ever
existed), `at` (mailboxes of each item), `oof`, and how often a message was
imported (`copies`) and submitted. A create, update or destroy is refused for the
reasons that `client.rs` maps to a Status (`CreateResult`, `UpdateResult`,
`DestroyResult`). Every call may fail, take effect unanswered, or be the last one
of a dropped request; a submission may also be answered without its method
(`silent`). Other clients create, rename and destroy mailboxes and move items in
between. `uses` is what the devices do in one behaviour: it keeps apart commands
that share no state, and FolderSync from the folder commands, whose effects other
clients have there.

`churn[p]` (mailboxes changed since request `p` began), `excused`, `doubts`,
`silent` and `oofs` are history variables.

- `ListingTrue`: a mailbox nobody touched is in a FolderSync answer exactly once
  and as what it is, one that was not there is not in it.
- `NotesShown`: the answer has a Notes folder, which really is the top-level
  Notes mailbox, unless a call failed, a method-level error hid the mailbox there is
  (`FindNotesErrs`, `notes.rs` 110-124) or somebody else created it first.
- `FolderStatus`: the status of a folder command tells what became of it.
- `MovedIsThere`: a move answered with success is done, unless the server refused it.
- `SentIsSubmitted`, `SentOnce`: what a device stops sending was submitted, and
  submitted once, plus once for each time the device could not know.
- `OofTold`: a Settings answer tells a state the account had after the Set of the
  same request.

### Wbxml, EasRequests and Wire

A document is a sequence of nodes, what is sent a sequence of bytes, a tag the
pair of its code page and token. `decode_document` is a fold of `Step`, which
makes of the next byte what the decoder's loop does: page switches, multi-byte
integers (which wrap at `Word`, 2^64 in the code), inline strings, opaque data, the
nesting and token limits, and every error in its order. The folds of `Wbxml` are
recursive functions; `Through`, which runs decoder and encoder, goes sixteen
elements at a time, only so that TLC's recursion stays shallow on 110 tokens.
`EasRequests` has one
fold per parser, over the same local variables as the code's loop. `Wire` writes
requests by definitions that follow the protocol's schema and know nothing of the
parsers, so that a parser that takes an element for one of another parent shows.

- `RoundTrip`: a document within the limits is read as it was written, one
  beyond them is refused for that reason.
- `Reread`: whatever bytes are accepted, their reading can be encoded and is read
  the same again.
- `SyncUnderstood`, `OthersUnderstood`: a Sync of several collections and
  commands, a MoveItems, a Fetch, a Search and a SendMail are understood as meant,
  and what lacks an element is left out.

## 3. Runs

| Run | Instance | Shows |
|---|---|---|
| `mail_serial` | 3 messages, window 2, keys to 3, one slot, a queued Delete, in-memory store, every fault | the safety properties and the inductive invariant `SerialInv` of a device that waits for its answer; 3.3 million states |
| `mail_overlap` | 2 messages, window 1, keys to 2, two slots (symmetric), device timeouts | no false Delete survives any overlap of handlers |
| `mail_live` | 2 messages, window 1, keys to 4, one slot, two queued Deletes, read or unread marks; failed calls and writes, lost answers and resets before the calm | acknowledged commands were applied, in order; convergence; 1.4 million states |
| `mail_window` | 3 messages, window 1 | expected violation: see findings |
| `item_serial` | 2 items, 2 contents, 1 draft, window 2, keys to 2, with and without GetChanges, all faults of JMAP and of the store together | the safety properties of item Sync and the invariant of their proof, `ItemInv`; 1.9 million states |
| `item_live` | 2 items, no drafts, JMAP failures, lost answers, resets before the calm | convergence |
| `item_window` | 2 items, window 1, no failures | expected violation |
| `store` | 2 handlers, 2 collections, 2 records, 2 items, all three backends | the invariant of the proof, and the refinement |
| `notes_store` | 2 requests (symmetric), 2 notes, 3 emails, 1 body, failed calls, method-level errors, calls without an answer and dropped requests | the four properties of `NoteStore` and the invariants of their proofs, `NoteInv` and `EditInv`; 1.9 million states under a view that hides what nothing reads any more |
| `notes_sync` | 1 note, 2 emails, 2 bodies, keys to 3, with and without GetChanges, every fault | `UpdateComes`, `NoFalseDelete` and the invariants of their proofs, `SyncInv` and `BodyInv`; 2.6 million states |
| `gateway` | 2 requests (symmetric), 3 mailboxes of which 1 is protected, names "A" and Notes, 1 item, 2 moves per request, 1 message tried twice | the seven properties of `Gateway` and the invariant of their proofs, `GatewayInv`; 0.3 million states |
| `wire` | nesting to 10, 110 tokens, integers below 256; documents of up to 4 of 8 nodes, alone, nested to one below the limit, or after 107 tokens; up to 6 of 7 byte values after the header; all requests of `Wire` | the codec and the parsers; 0.3 million states |

Each module has its type invariant `TypeOK`. Where a run checks an inductive
invariant that contains it (`SerialInv`, `ItemInv`, `SyncInv`), or its parts
(`GatewayInv`), the run does not list it again.

Two messages with a window of one give new mail, messages pushed out of the page
and more mail than the window; the third message of `mail_serial` and its window
of two add pages that mix seen and new messages. Three keys are enough for an
initial Sync, an Add and a Delete. A command the server refuses (`reject`) is in
`mail_serial` only: the gateway acknowledges it, so what `mail_live` says of
acknowledged commands is not true of it. The device stops below `MaxKey` (the code saturates at
2^64 - 1), which bounds every run and is why runs without resets switch the
deadlock check off. Two slots are the smallest overlap; three add a third stale
writer to the same race.

Two items tell apart the one a request writes and the one others touch, two
contents an edit and a second one on top of it, one draft a creation that races
with both.

Three emails are two revisions of a note beside another note, or three of one:
an edit that overlaps another edit, a Delete or an adoption needs no more. When
all ids are given out, an import fails, as it may anyway. What a finished request
answers is read in `NoteSync` alone, so `MCNoteStore` gives TLC a view without it.
In `notes_sync` one note has two revisions, which are its own edit, a rival's or a
foreign one, in one second or not; three keys are an initial Sync and two rounds.
More emails and notes are left to the theorems.

Three mailboxes allow a folder within a folder, a name that is taken and a
mailbox created while another request looks for it; the second message of a
MoveItems shows that one failure leaves the other status alone. In `gateway`
books and calendars are empty: collections that are no mailboxes appear through
the Notes folder, and their ids are refused in the same place. It stops when the
message is tried out, as `wire` does after one request: neither checks deadlock.

The code's limits are 64 levels, 20000 tokens and 64 bits. The same comparisons
are made at smaller numbers, and a sequence of six bytes holds an integer that
overflows `Word` = 256, a page switch without a tag, and content cut off anywhere.

Fairness (`MailSyncLive`, `ItemSyncLive`): a running handler keeps being polled by the runtime
and its calls return, and a device keeps synchronising on its schedule. Both are
assumed only after the disturbances ended; before, anything may happen forever.
The calm starts with three keys left below the bound of the model. The other
modules state no liveness: a request ends because each call does, and nothing in
the code retries.

## 4. Findings

- **A burst larger than the window is lost** (`mail_window`). A later Sync filters
  a page cut at the window, so the older part of the burst is neither sent nor
  announced by MoreAvailable.
- **Items beyond the window are deleted from the device** (`item_window`). The
  listing is cut at WindowSize (25 unless the device asks otherwise), and what is
  missing from it is removed without the confirmation mail has. Events and tasks
  share a calendar, so they push each other out.

Known limits seen while modelling; the properties above name them as exceptions
or the runs leave the case out:

- A request sent again while the first is at work reads the same record; both are
  answered with the same Adds and the later write wins (1330), although README.md
  line 77 says repeats do not replay Adds. The theorems about the record assume
  one request at a time.
- `email_set` looks at neither `notUpdated` nor `notDestroyed` (`client.rs` 2104):
  a refused Delete is acknowledged, and a refused move is answered with Status 3
  where `docs/eas-jmap-gap-analysis.md` line 35 has Status 5. A second move that
  still names the first folder leaves the message in two mailboxes (1780).
- An initial Sync of a device that was set up again keeps older ids as seen
  (`carried`), so they are not sent when they come back into the window; for items
  and notes the ways into `missed` are of this kind. A client Add whose request
  ends with Status 5 is applied again by the retry.
- Two FolderSyncs that both find no Notes mailbox both create one; the refused one
  answers without the Notes folder, although `client.rs` 324-329 looks twice to
  avoid that. So does one whose second look is answered with a method-level error.
- A submission answered without `EmailSubmission/set` counts as sent
  (`client.rs` 1996); one that is refused leaves its copy in Sent Items.
- `list_notes` returns an empty list for a method-level error (`notes.rs` 258-309),
  where every other listing fails (`client.rs` 423, 647, 1029, 1344): every note is
  deleted from the device, although `client.rs` 596 calls the diff safe for notes.
  The next Sync sends them again.
- `resolve_note_email_id` answers a method-level error like a query that finds nothing
  (`notes.rs` 202-216): a Delete succeeds with the note still there, although `notes.rs`
  546 keeps success for a note that is gone, and an edit leaves two emails, although
  443 resolves the old one first to avoid that.
- Two edits of a note within one second have one hash (`notes.rs` 728). A Notes
  mailbox is listed up to 200 emails, not the 500 the caller asks for (`notes.rs`
  235), with the same effect as `item_window`.
- An empty element inside an attendee or a body leaves the parser in it (`eas.rs`
  1574); ItemOperations with several Fetch elements is read as one.

## 5. Proofs

`MailSyncProofs` proves, for every finite set of messages, window, bound, number
of slots and set of faults:

- `TypeCorrect`;
- `DeletesAreReal` (`NoFalseDelete`), from `AwayInv`: every running handler's
  history contains all messages outside the mailbox, and the removed ids come
  from a confirmed absence. It holds for overlapping requests.
- `AcknowledgedDeletesAreDone` (`AckedDeletesDone`) unless the server refuses
  single commands, from `DeletesInv`: a Delete leaves the list of commands only
  when it is done, and a handler leaves the commands only when the list is empty.
- `FirstSyncIsComplete` (`FirstSyncComplete`), from `PageInv`: the page of an
  initial Sync holds every message that was there all along, or the handler
  remembers that there is more, up to the answer. It holds for overlapping
  requests; the size of the page (`Newest`) is the step where the window counts.

With one request at a time (`OneRequest`) and no refused commands,
`AcknowledgedMarksAreDone` (`AckedMarksDone`) follows from `MarksInv`: the commands
still to do are the last ones of the request, and every message that exists has
the flag of the last mark before them. Of two handlers each with a list of marks,
either may set its own last.

With one request at a time: `SerialInvariant`, and from it `DeviceIsTracked`,
`NoMailHidden`, `AddsAreNew`, `KeysNameStates`. None of these is inductive
alone: an answer in flight decides what the device will show. `SerialInv` adds
that a handler past the key check holds the stored record (`HoldsRecord`), that
an answer the device waits for leads it to the stored record (`LeadsToStored`),
that handlers work for the device's present key (`WorksForDevice`) and that a
device without a key shows nothing (`FreshIsEmpty`). TLC checks `SerialInv` in
`mail_serial` before the prover sees it.

`StoreProofs` proves for all handlers, keys, records, items and hashes:

- `StoreInvariant` (`IInv`): an open transaction belongs to the handler that holds
  the mutex, and what the connection sees differs from the table only in the items
  that handler has replaced so far (`TxInv`); outside a transaction both agree
  (`ViewInv`).
- `StoreImplements` (`Implements`): every step of a backend is a step of
  `StateStore` or a stutter. `IInv` is needed at two steps: `Commit` must install
  exactly the set of the call, and `item_states` must not see half a transaction.
  The one assumption is that `None` is no record, hash or handler.

`NoteProofs` proves for all requests, notes, emails, bodies, limits and faults,
from `NotesInvariant` (`NoteInv`):

- `NewestIsKept` (`NewestSurvives`). A request may destroy only what it looked up,
  so the invariant follows that email (`JobInv`): it belongs to the note of the
  request, and once the edit has imported its own, it is not the newest one. That
  the newest email always carries its note's id (`TagsInv`) closes the argument
  when one email is reached through two notes.
- `IdIsStable` (`StableId`), from `RaceInv`: an email that two listings are about
  to adopt is in `raced`, and what one listing adopts has no id yet.

`SecInv` bounds the clock by the emails imported, so that an import always has a
second to take. The note and email ids are assumed to be finite sets of positive
numbers (0 is None).

From `EditsInvariant` (`EditInv`, on top of `NoteInv`) it also proves:

- `RevisionIsOne` (`OneRevision`) and `DeletedStaysGone` (`DeletedIsGone`). Both
  speak of the mailbox only; the invariant adds the requests (`RevisionInv`). Of a
  note that is not `messy` one edit is at work at a time, what that edit looked up
  are all the emails the note had, and from its import on the emails are the
  newest one and the one the edit is about to destroy. Every way into `messy` is
  used: without it a second email would stay that no request knows of. That is why
  an edit whose lookup erred is one of them: it has imported with an email behind it
  that it did not find. What a Delete overlooked is apart from it, since that note
  keeps its one email, and the invariant of deleted notes (`DeletedInv`) excepts it.

`ItemProofs` proves for all collections, contents, drafts, windows and faults, from
`ItemInvariant` (`ItemInv`): `ItemTypes`, `DeviceShowsItemStates` (`ViewIsBase`),
`WritesDoNotReturn` (`NoEcho`) and, if the window holds the collection
(`WholeListing`), `RemovalsAreReal` (`NoFalseDelete`). `ViewIsBase` speaks of the moments between requests; `ItemInv` adds what links them:

- `Agree` extends it to a request at work, `RequestInv` and `WorkInv` tie the
  handler's commands, previous item states and responses to the device;
- `ReplyInv` says that an answer leads the device to the item states it names.

The central step is the answer (`AnswerBrings`): an item outside `Missed` is
removed, sent, written by the request itself or untouched, and in each case the
device ends with what the listing has. Each way into `missed` is used by one of the cases. That the stored key equals the
device's only if nothing was different (`KeyMoves`) covers an answer that does not
move the SyncKey.

`GatewayProofs` proves for all mailboxes, names, moves, messages, tries and
requests at work at once, from `GatewayInvariant` (`GatewayInv`):

- `ListingIsTrue`, `NotesAreShown`, `StatusTells`, `MovedAreThere` are action
  properties: each speaks of the step in which the answer is made. For `FolderSync`
  that step comes up to three calls after the listing, so `ListInv` says what the
  list still says of the mailboxes nobody changed meanwhile (`churn`), and that a
  request about to create a Notes mailbox that is already there is `excused`, be it
  that somebody created it or that an error hid it. For
  the others `JobInv` ties the step of a slot to the request it is in.
- `SendsAreSubmitted`, `SendsAreOnce`: how often a message was imported and
  submitted is bounded by the tries and the doubts of the device only together
  with the slots at work on it. `SendInv` counts those (`InHand`); lemmas on the
  cardinality of a set that gains or loses a slot carry the argument through each
  step.
- `OofIsTold`: until it reads, a Settings request may tell any state the account
  had since its Set (`OofInv`).

Nothing is assumed there but finite sets and that the faults, uses and mailboxes
are among those the modules name.

`NoteSyncProofs` proves `SyncInvariant` (`SyncInv`) for all notes, emails, bodies,
keys and faults. A request calls a function of `NoteStore`, so `NoteInv` and
`EditInv` are shown to hold under it, and `SyncInv` adds what lies between the two
levels: which function is at work where the request is (`JobFits`), that what it
hands back is an email of its note with the body that was saved (`SavedInv`), that
device, commands and responses name only notes that had an email (`KnownInv`) and
that item states are hashes of such emails (`HashInv`).

`NoteAnswerProofs` proves from it:

- `DeletesAreTrue` (`NoFalseDelete`), from `AwayInv`: what a listing did not find had
  no email when it was made, unless it was answered with an error (`blind`). It
  assumes that one listing holds every email of the mailbox (`AllListed`), which the code does not ensure beyond 200; see findings.
- `BodiesAgree` (`BodyInv`) and `UpdatesCome` (`UpdateComes`), imports in one second
  included. `UpdateComes` speaks of the moments between requests. `BodyInv` says
  for each moment of a request what makes it true at the next one: before the
  answer, that a body the device shows is that of every email with the hash in the
  item states (`Agree`, `Fits`), `messy` and `Blurred` notes apart, and that each
  edit of the device is still a command to do or has been answered (`WorkInv`);
  then, that the answer, once applied, leads there (`AnswerInv`), the notes whose
  body is still to be fetched (`Pending`) apart. Here too each way into `missed` and
  `messy` is one case. A new email takes the hash of an older one of its note only
  if both are of one second: that is the step where `Blurred` is needed (`OldHash`).

`NoteSync` assumes one request at a time (`Procs = {Gw}`), as its device sends them,
that `None` is neither the handler nor a body, and the sets of `NoteStore`.

`CodecProofs` proves for all documents, bytes, limits and every `Word` above the
header's 106:

- `DocumentRead`, and from it `RoundTripTheorem` (`RoundTrip`): a balanced document
  of well-formed nodes, of any length, is read node for node or, if it is beyond a
  limit, refused for a limit;
- `BytesReread`, and from it `RereadTheorem` (`Reread`): the reading of any bytes
  that are accepted can be encoded within the limits and is read the same again.

The library's induction theorems take an operator, so `NatInd` states induction
over a set, from the well-foundedness of Nat. With it `Through` is shown to follow
a chain of states one element at a time (`ReadAppend`, `WriteAppend`), and the
recursive functions `write_mb_uint` and `WithoutNul` are taken apart: an integer
below `Word` is read as it was written (`ReadUintIs`), a text stays UTF-8 without
its NULs because none is within a character (`WithoutNulValid`). `NodeRead` says
that each kind of node is read as it is written, after whatever was before it, and
how the counters of the decoder move. For `DocumentRead` the induction is over the
nodes: `ReadUpto` ties the decoder's page, depth and number of tokens to what
`WithinLimits` counts in the document (the last start, `Open`, and nodes plus
`Switches`), or the document is refused and stays so. For `BytesReread` it is over
the bytes: in `Understood` the nodes read so far are those the encoder can write
(`ReadNodes`), and writing them again takes no more tokens than the decoder has
spent (`Again`), because switches without a tag between them are left out.
Assumed are that the limits are numbers, that `Nodes` are well-formed (no start has
a token of another meaning, texts are UTF-8, the length of an opaque is below
`Word`) and that `Bytes` are bytes.

Only model-checked: convergence, since liveness under fairness is out of the
prover's reach; and what the parsers of `EasRequests` understand
(`SyncUnderstood`, `OthersUnderstood`). The requests of `Wire` do not depend on its
constants but for the limits, so a theorem over those constants would say little
more than the run does; one about every request is left.

## 6. Not modelled, and what is left

Not modelled, because nothing the properties speak of depends on it: the mapping
of contact, calendar and task fields between JMAP objects and EAS elements (time
zones and recurrence included) and the rendering and cutting of bodies, which are
pure conversions; Search, ItemOperations and GetAttachment beyond their requests,
which read and keep nothing; Provision, GetItemEstimate and OPTIONS, which answer
constants; the HTTP server, configuration, metrics and Autodiscover; the rewriting
of the From header and the building of MIME; a JMAP session that loses its mail
account between two calls (`client.rs` 609).

Left: what the parsers make of requests with any number of collections and
commands, which needs the parsers' folds as recursive functions too; liveness of `Gateway`, which needs the device's retries under fairness.

---------------------------- MODULE ItemSyncLive ----------------------------
(***************************************************************************)
(* Convergence of item Sync.  At some moment the disturbances end: no more *)
(* failed calls, lost answers, edits on the device or by other clients.    *)
(* From then on the device polls and the gateway answers.                  *)
(*                                                                         *)
(* Fairness: the runtime keeps polling a handler whose calls return, and a *)
(* device keeps synchronising on its schedule.  Nothing is assumed before  *)
(* the disturbances end.                                                   *)
(***************************************************************************)
EXTENDS ItemSync

VARIABLE quiet  \* the disturbances are over

\* Keys the device may still need: an answer on its way, commands, changes.
KeySlack == 3

\* Disturbances end with keys left before the bound of the model.
CalmDown == ~quiet /\ ckey + KeySlack <= MaxKey /\ quiet' = TRUE /\ UNCHANGED vars

\* A device that wants the changes asks for them; a Change of an item that is
\* gone is refused in the calm too.
CalmStep ==
  Work \/ (ChangeFails /\ \E c \in h.todo : c.op = "Change" /\ items[c.id] = None)
    \/ Receive \/ SendSync(TRUE)

LiveInit == Init /\ quiet = FALSE

LiveNext ==
  \/ ~quiet /\ Next /\ UNCHANGED quiet
  \/ CalmDown
  \/ quiet /\ CalmStep /\ UNCHANGED quiet

Fairness == WF_<<vars, quiet>>(quiet /\ CalmStep /\ UNCHANGED quiet)

LiveSpec == LiveInit /\ [][LiveNext]_<<vars, quiet>> /\ Fairness

\* What the device shows is what the server lists, with nothing left to send.
Settled ==
  /\ ckey # 0 /\ ckey = key /\ dirty = {}
  /\ \A i \in Items \ missed : has[i] = Listing(items)[i]

\* Once disturbances end, the device comes to show the collection and stays so,
\* whatever was lost before; only the ways into `missed` are lost for good.
Converges == quiet ~> []Settled
=============================================================================

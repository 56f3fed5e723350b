---------------------------- MODULE MailSyncLive ----------------------------
(***************************************************************************)
(* Convergence of mail Sync.  At some moment the disturbances end: no more *)
(* failed calls, lost answers, restarts, user actions or changes made to   *)
(* the mailbox by others.  From then on the device polls and the gateway   *)
(* answers.                                                                *)
(*                                                                         *)
(* Fairness: the runtime keeps polling a handler whose calls return, and a *)
(* device keeps synchronising on its schedule.  Nothing is assumed before  *)
(* the disturbances end.                                                   *)
(***************************************************************************)
EXTENDS MailSync

VARIABLE quiet  \* the disturbances are over

\* Keys the device may still need: an answer on its way, commands, changes.
KeySlack == 3

\* Disturbances end with keys left before the bound of the model.
CalmDown == ~quiet /\ ckey + KeySlack <= MaxKey /\ quiet' = TRUE /\ UNCHANGED vars

\* A device that wants its mail asks for changes.
Poll(r) == SendSync(r, TRUE)

CalmStep(r) == Work(r) \/ Receive(r) \/ Poll(r)

LiveInit == Init /\ quiet = FALSE

LiveNext ==
  \/ ~quiet /\ Next /\ UNCHANGED quiet
  \/ CalmDown
  \/ quiet /\ (\E r \in Reqs : CalmStep(r)) /\ UNCHANGED quiet

Fairness ==
  \A r \in Reqs :
    WF_<<vars, quiet>>(quiet /\ CalmStep(r) /\ UNCHANGED quiet)

LiveSpec == LiveInit /\ [][LiveNext]_<<vars, quiet>> /\ Fairness

\* In sync, the device shows nothing that left the mailbox, and all of the
\* newest page save what an initial Sync carried over.
Settled ==
  /\ InSync
  /\ has \subseteq inbox
  /\ Newest(inbox) \subseteq has \cup carried

\* Once disturbances end, the device's view of the page converges to the
\* mailbox and stays there: retries after Status 3 and 5 lose nothing for good.
Converges == quiet ~> []Settled
=============================================================================

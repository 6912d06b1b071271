-------------------------------- MODULE Session --------------------------------
(***************************************************************************)
(* JkApplication (application.py): one serial session shared by worker     *)
(* threads, which take _serial_lock, and the UI thread, whose              *)
(* inspect_firmware and preflight do not.  A worker is a thread that makes *)
(* one call, as the @work methods of ui.py do, so that the handle it opens *)
(* and the transcript it writes are named after it.                        *)
(*                                                                         *)
(* What FirmwareFlasher.flash does with the wire is in Flasher; here it    *)
(* accepts or refuses an approval, may attempt boot entry, and ends as     *)
(* Flasher ends: by a verdict, or by raising, which after boot entry the   *)
(* event sink can still make it do.                                        *)
(***************************************************************************)
EXTENDS Integers, FiniteSets

CONSTANTS
  Workers,        \* worker threads
  Identities, Images,
  Physical,       \* the unit behind an identity, _physical_identity
  ProfileOf,      \* the capability _select_profile selects, or NoProfile
  FlashProfiles,  \* the capabilities with flash_supported
  NoProfile,
  Allowed,        \* pairs the compatibility evaluator allows
  None,           \* Python's None
  UiCalls         \* bound on the calls of the UI thread

Verdicts == {"raised", "recovery_required", "succeeded"}

ASSUME SessionAssumption ==
  /\ Physical \in [Identities -> Identities]
  /\ Allowed \subseteq Identities \X Images
  /\ None \notin Workers \cup Identities \cup Verdicts
  /\ UiCalls \in Nat

Operations == {"connect", "close", "read_identity", "read_dashboard", "flash"}

Calls == [op : Operations \ {"flash"}]
           \cup [op : {"flash"}, identity : Identities, image : Images]

VARIABLES
  lock,       \* who holds _serial_lock, or None
  pc,         \* per worker: what its call does next
  call,       \* per worker: the operation and its arguments
  transport,  \* _transport and _protocol: the worker that opened it, or None
  identity,   \* _identity
  profile,    \* _profile
  approval,   \* _approval
  handles,    \* serial ports open in the operating system
  taken,      \* per worker: the local variable approval of _flash_locked
  accepted,   \* per worker: the flasher let its approval through
  attempted,  \* per worker: boot entry was attempted
  result,     \* per worker: how the flasher ended
  record,     \* per worker: what its transcript on disk says last
  ui          \* the UI thread: its step and locals, its calls so far

session == <<transport, identity, profile, approval>>
attempt == <<taken, accepted, attempted, result, record>>
vars == <<lock, pc, call, session, handles, attempt, ui>>

Approvals == [issued : 1 .. UiCalls, identity : Identities, image : Images]

Init ==
  /\ lock = None
  /\ pc = [w \in Workers |-> "idle"] /\ call = [w \in Workers |-> None]
  /\ transport = None /\ identity = None /\ profile = NoProfile /\ approval = None
  /\ handles = {}
  /\ taken = [w \in Workers |-> None]
  /\ accepted = [w \in Workers |-> FALSE]
  /\ attempted = [w \in Workers |-> FALSE]
  /\ result = [w \in Workers |-> None]
  /\ record = [w \in Workers |-> "none"]
  /\ ui = [step |-> "idle", calls |-> 0]
-------------------------------------------------------------------------------
(* Control.                                                                *)
To(w, step) == pc' = [pc EXCEPT ![w] = step]

(* "with self._serial_lock" ends, by return or by exception.               *)
KeepLockOnReturn(w) == To(w, "done") /\ UNCHANGED lock        \* fault variant
Leave(w) == To(w, "done") /\ lock' = None

Begin(w) ==
  /\ pc[w] = "idle"
  /\ \E c \in Calls : call' = [call EXCEPT ![w] = c]
  /\ To(w, "lock")
  /\ UNCHANGED <<lock, session, handles, attempt, ui>>

MayEnterAlways(w) == TRUE                                     \* fault variant
MayEnter(w) == lock = None

Enter(w) ==
  /\ pc[w] = "lock" /\ MayEnter(w)
  /\ lock' = w
  /\ To(w, call[w].op)
  /\ UNCHANGED <<call, session, handles, attempt, ui>>

(* The call raises without having changed anything.                        *)
Refuse(w) == Leave(w) /\ UNCHANGED <<call, session, handles, attempt, ui>>

Connected == identity # None
Knows(p) == p # NoProfile
CanFlash(p) == p \in FlashProfiles
-------------------------------------------------------------------------------
(* connect and close.                                                      *)

(* _close_locked, whose close of the port is taken not to fail.            *)
ForgetOnly == UNCHANGED handles                               \* fault variant
ClosePort == handles' = handles \ {transport}

CloseLocked ==
  /\ ClosePort
  /\ transport' = None /\ identity' = None /\ profile' = NoProfile
  /\ approval' = None

Close(w) ==
  /\ pc[w] = "close"
  /\ CloseLocked /\ Leave(w)
  /\ UNCHANGED <<call, attempt, ui>>

(* The address may be refused before the old session is given up.          *)
Disconnect(w) ==
  /\ pc[w] = "connect"
  /\ \/ Refuse(w)
     \/ /\ CloseLocked /\ To(w, "open")
        /\ UNCHANGED <<lock, call, attempt, ui>>

OpenPort(w) ==
  /\ pc[w] = "open"
  /\ \/ Refuse(w)
     \/ /\ handles' = handles \cup {w}
        /\ To(w, "discover")
        /\ UNCHANGED <<lock, call, session, attempt, ui>>

(* _discover_sole_responder and _select_profile, and on any exception      *)
(* transport.close().  The five assignments at the end are one step: the   *)
(* UI thread reads them in the order they are written, and gives up when   *)
(* it meets a None.                                                        *)
Discover(w) ==
  /\ pc[w] = "discover"
  /\ \/ \E i \in Identities :
          /\ transport' = w /\ identity' = i /\ profile' = ProfileOf[i]
          /\ approval' = None
          /\ UNCHANGED handles
     \/ handles' = handles \ {w} /\ UNCHANGED session
  /\ Leave(w)
  /\ UNCHANGED <<call, attempt, ui>>
-------------------------------------------------------------------------------
(* Queries.                                                                *)
StartQuery(w) ==
  /\ \/ pc[w] = "read_identity" /\ transport # None
     \/ pc[w] = "read_dashboard" /\ Connected /\ Knows(profile)
  /\ To(w, "reading")
  /\ UNCHANGED <<lock, call, session, handles, attempt, ui>>

(* For want of a session, a telemetry layout or the right cell count.      *)
RefuseQuery(w) ==
  /\ \/ pc[w] = "read_identity" /\ transport = None
     \/ pc[w] = "read_dashboard"
  /\ Refuse(w)

AnyUnit(i) == i \in Identities                                \* fault variant
SameUnit(i) == Connected => Physical[i] = Physical[identity]

(* The answer; a changed physical identity, a bad answer or none raises.   *)
Answer(w) ==
  /\ pc[w] = "reading"
  /\ \/ /\ call[w].op = "read_identity"
        /\ \E i \in Identities : SameUnit(i) /\ identity' = i
     \/ UNCHANGED identity
  /\ Leave(w)
  /\ UNCHANGED <<call, transport, profile, approval, handles, attempt, ui>>
-------------------------------------------------------------------------------
(* flash.                                                                  *)
MayFlash(w) ==
  /\ Connected /\ CanFlash(profile) /\ transport # None
  /\ call[w].identity = identity
  /\ approval # None

CheckFlash(w) ==
  /\ pc[w] = "flash"
  /\ IF MayFlash(w)
     THEN To(w, "take") /\ UNCHANGED <<lock, call, session, handles, attempt, ui>>
     ELSE Refuse(w)

(* The UI thread may have changed _approval since it was tested, and may   *)
(* change it again before it is cleared.                                   *)
TakeApproval(w) ==
  /\ pc[w] = "take"
  /\ taken' = [taken EXCEPT ![w] = approval]
  /\ To(w, "consume")
  /\ UNCHANGED <<lock, call, session, handles, accepted, attempted, result, record, ui>>

KeepApproval == UNCHANGED approval                            \* fault variant
ClearApproval == approval' = None

ConsumeApproval(w) ==
  /\ pc[w] = "consume"
  /\ ClearApproval
  /\ To(w, "transcript")
  /\ UNCHANGED <<lock, call, transport, identity, profile, handles, attempt, ui>>

(* write_audit of flash_started.  A failure leaves nothing or an empty     *)
(* file, and the device alone.                                             *)
TranscriptLater(w) == UNCHANGED record                        \* fault variant
ResultTooSoon(w) == record' = [record EXCEPT ![w] = result[w]] \* fault variant
EstablishTranscript(w) == record' = [record EXCEPT ![w] = "started"]

OpenTranscript(w) ==
  /\ pc[w] = "transcript"
  /\ \/ EstablishTranscript(w) /\ To(w, "flasher") /\ UNCHANGED lock
     \/ /\ record' \in {record, [record EXCEPT ![w] = "truncated"]}
        /\ Leave(w)
  /\ UNCHANGED <<call, session, handles, taken, accepted, attempted, result, ui>>

(* _require_approval, in the flasher.                                      *)
Acceptable(w) ==
  /\ taken[w] # None
  /\ taken[w].identity = call[w].identity
  /\ taken[w].image = call[w].image

EnterFlasher(w) ==
  /\ pc[w] = "flasher"
  /\ \/ /\ Acceptable(w)
        /\ accepted' = [accepted EXCEPT ![w] = TRUE]
        /\ To(w, "flashing")
        /\ UNCHANGED result
     \/ /\ result' = [result EXCEPT ![w] = "raised"]
        /\ To(w, "truncate")
        /\ UNCHANGED accepted
  /\ UNCHANGED <<lock, call, session, handles, taken, attempted, record, ui>>

Attempt(w) ==
  /\ pc[w] = "flashing" /\ ~attempted[w]
  /\ attempted' = [attempted EXCEPT ![w] = TRUE]
  /\ UNCHANGED <<lock, pc, call, session, handles, taken, accepted, result, record, ui>>

(* Before boot entry the only end is to raise.  After it there is a        *)
(* verdict, unless the sink raises on RECOVERY_REQUIRED or SUCCEEDED.      *)
EndFlasher(w) ==
  /\ pc[w] = "flashing"
  /\ \E verdict \in IF attempted[w] THEN Verdicts ELSE {"raised"} :
       result' = [result EXCEPT ![w] = verdict]
  /\ To(w, "truncate")
  /\ UNCHANGED <<lock, call, session, handles, taken, accepted, attempted, record, ui>>

(* The last write_audit opens the file for writing, then writes; its       *)
(* exceptions are suppressed.                                              *)
TruncateTranscript(w) ==
  /\ pc[w] = "truncate"
  /\ record' \in {record, [record EXCEPT ![w] = "truncated"]}
  /\ To(w, IF record' = record THEN "adopt" ELSE "rewrite")
  /\ UNCHANGED <<lock, call, session, handles, taken, accepted, attempted, result, ui>>

RewriteTranscript(w) ==
  /\ pc[w] = "rewrite"
  /\ record' \in {record, [record EXCEPT ![w] = result[w]]}
  /\ To(w, "adopt")
  /\ UNCHANGED <<lock, call, session, handles, taken, accepted, attempted, result, ui>>

(* The verified identity becomes the session's; the profile stays.         *)
AdoptIdentity(w) ==
  IF result[w] = "succeeded"
  THEN \E i \in Identities : Physical[i] = Physical[call[w].identity] /\ identity' = i
  ELSE UNCHANGED identity

Adopt(w) ==
  /\ pc[w] = "adopt"
  /\ AdoptIdentity(w) /\ Leave(w)
  /\ UNCHANGED <<call, transport, profile, approval, handles, attempt, ui>>
-------------------------------------------------------------------------------
(* The UI thread, which takes no lock.                                     *)
UiAt(step) == ui.step = step
workers == <<lock, pc, call, transport, identity, profile, handles, attempt>>

InspectStart ==
  /\ UiAt("idle") /\ ui.calls < UiCalls
  /\ Knows(profile)
  /\ ui' = [ui EXCEPT !.step = "inspecting", !.calls = @ + 1]
  /\ UNCHANGED <<workers, approval>>

(* An image was inspected; the inspector may raise instead.                *)
InspectEnd ==
  /\ UiAt("inspecting")
  /\ ui' = [ui EXCEPT !.step = "idle"]
  /\ approval' \in {None, approval}
  /\ UNCHANGED workers

PreflightStart ==
  /\ UiAt("idle") /\ ui.calls < UiCalls
  /\ Connected
  /\ \E i \in Identities, m \in Images :
       ui' = [step |-> "checked", calls |-> ui.calls + 1,
              identity |-> i, image |-> m, connected |-> identity]
  /\ UNCHANGED <<workers, approval>>

PreflightEvaluate ==
  /\ UiAt("checked")
  /\ ui' = IF CanFlash(profile) /\ ui.identity = ui.connected
           THEN [step |-> "evaluated", calls |-> ui.calls,
                 identity |-> ui.identity, image |-> ui.image]
           ELSE [step |-> "idle", calls |-> ui.calls]
  /\ UNCHANGED <<workers, approval>>

IssueApproval ==
  approval' = IF <<ui.identity, ui.image>> \in Allowed
              THEN [issued |-> ui.calls, identity |-> ui.identity, image |-> ui.image]
              ELSE None

PreflightIssue ==
  /\ UiAt("evaluated")
  /\ IssueApproval
  /\ ui' = [step |-> "idle", calls |-> ui.calls]
  /\ UNCHANGED workers
-------------------------------------------------------------------------------
Worker(w) ==
  \/ Enter(w) \/ Close(w) \/ Disconnect(w) \/ OpenPort(w) \/ Discover(w)
  \/ StartQuery(w) \/ RefuseQuery(w) \/ Answer(w)
  \/ CheckFlash(w) \/ TakeApproval(w) \/ ConsumeApproval(w) \/ OpenTranscript(w)
  \/ EnterFlasher(w) \/ EndFlasher(w) \/ TruncateTranscript(w)
  \/ RewriteTranscript(w) \/ Adopt(w)

Ui == InspectStart \/ InspectEnd \/ PreflightStart \/ PreflightEvaluate \/ PreflightIssue

Finished ==
  /\ UiAt("idle") /\ \A w \in Workers : pc[w] = "done"
  /\ UNCHANGED vars

Next ==
  \/ Ui \/ Finished
  \/ \E w \in Workers : Begin(w) \/ Attempt(w) \/ Worker(w)

Spec == Init /\ [][Next]_vars

(* A thread that can go on does; every call of the flasher ends, as        *)
(* Flasher shows.  The lock need not be fair: each thread makes one call.  *)
FairSpec == Spec /\ \A w \in Workers : WF_vars(Worker(w))
-------------------------------------------------------------------------------
Steps == Operations \cup
  {"idle", "lock", "open", "discover", "reading", "take", "consume", "transcript",
   "flasher", "flashing", "truncate", "rewrite", "adopt", "done"}

(* The session, the threads and the transcripts have values the code can   *)
(* give them.                                                              *)
TypeOK ==
  /\ lock \in Workers \cup {None}
  /\ pc \in [Workers -> Steps] /\ call \in [Workers -> Calls \cup {None}]
  /\ transport \in Workers \cup {None} /\ handles \subseteq Workers
  /\ identity \in Identities \cup {None}
  /\ profile \in {ProfileOf[i] : i \in Identities} \cup {NoProfile}
  /\ approval \in Approvals \cup {None}
  /\ taken \in [Workers -> Approvals \cup {None}]
  /\ accepted \in [Workers -> BOOLEAN] /\ attempted \in [Workers -> BOOLEAN]
  /\ result \in [Workers -> Verdicts \cup {None}]
  /\ record \in [Workers -> Verdicts \cup {"none", "started", "truncated"}]
  /\ ui.step \in {"idle", "inspecting", "checked", "evaluated"}
  /\ ui.calls \in 0 .. UiCalls

(***************************************************************************)
(* _serial_lock: whoever is on the wire holds the lock and talks to a port *)
(* that is open, so no poll, reconnect or close ever interleaves with a    *)
(* firmware transfer.                                                      *)
(***************************************************************************)
WireIsExclusive ==
  \A w \in Workers :
    /\ pc[w] = "discover" => lock = w /\ w \in handles
    /\ pc[w] \in {"reading", "flashing"} => lock = w /\ transport \in handles

(***************************************************************************)
(* Between calls the session is whole: the one open port is the session's, *)
(* and there is an identity exactly when there is a port, whichever step   *)
(* of a connect or a reconnect failed.                                     *)
(***************************************************************************)
SessionIsWhole ==
  lock = None => /\ handles = {transport} \ {None}
                 /\ transport = None <=> identity = None

(***************************************************************************)
(* An attempt that the flasher lets through has an approval that an        *)
(* allowing preflight issued for this identity and image, that no other    *)
(* attempt uses, and is for the identity the session is connected to; the  *)
(* UI thread changes _approval at any moment.                              *)
(***************************************************************************)
AttemptIsApproved ==
  \A w \in Workers : accepted[w] =>
    /\ taken[w] # None
    /\ taken[w].identity = call[w].identity /\ taken[w].image = call[w].image
    /\ <<call[w].identity, call[w].image>> \in Allowed
    /\ pc[w] = "flashing" => identity = call[w].identity
    /\ \A v \in Workers \ {w} : accepted[v] => taken[v].issued # taken[w].issued

(***************************************************************************)
(* "Establish transcript availability before changing device state": from  *)
(* the moment boot entry may have been attempted a crash leaves a          *)
(* transcript that names the attempt, except while the last write replaces *)
(* it.  A transcript that ends in succeeded or recovery_required is of an  *)
(* attempt that was made and ended so.  One that ends in flash_blocked     *)
(* ("raised") tells nothing of the device: flash() can raise after boot    *)
(* entry too, from the event sink.                                         *)
(***************************************************************************)
AttemptIsOnRecord ==
  \A w \in Workers :
    /\ attempted[w] => \/ record[w] \in {"started"} \cup Verdicts
                       \/ record[w] = "truncated" /\ result[w] # None
    /\ record[w] \in Verdicts => record[w] = result[w]
    /\ record[w] \in {"succeeded", "recovery_required"} => attempted[w]

(***************************************************************************)
(* A session stays with one physical unit until it is closed or            *)
(* reconnected: neither a fresh identity nor a finished flash moves it.    *)
(***************************************************************************)
SessionKeepsUnit ==
  [][identity # None /\ identity' # None /\ transport' = transport
       => Physical[identity'] = Physical[identity]]_vars

(* Every call returns: no way out of a method leaves the lock taken.       *)
CallsReturn == \A w \in Workers : pc[w] = "lock" ~> pc[w] = "done"
===============================================================================

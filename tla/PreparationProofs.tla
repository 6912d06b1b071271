--------------------------- MODULE PreparationProofs ---------------------------
(* What Preparation promises, for every profile, file, identity and clock. *)
EXTENDS Preparation, FiniteSetTheorems, TLAPS

(* The inspector and the evaluator check the same things in their own      *)
(* words: a file that is inspected gives a sound image.                    *)
LEMMA InspectedLands ==
  ASSUME NEW f \in Files, NEW t, Inspects(f, t)
  PROVE  LandsInFlash(ImageOf(f))
<1> DEFINE img == ImageOf(f)
<1>1. {f.declared, f.inflated, f.sp, f.reset} \subseteq Nat
  BY FilesAssumption
<1>2. /\ Output(f) = f.declared /\ Output(f) <= Limit
      /\ InRange(f.inflated) /\ SoundVectors(f)
      /\ f.inflated - SuffixSize <= FlashCapacity
  BY DEF Inspects, Decodes, Inflates, FitsProfile
<1>3. Output(f) = f.inflated
  BY <1>1, <1>2, ProfileAssumption DEF InRange, Output, Smaller, Limit
<1>4. /\ img.transfer_body = f.inflated - SuffixSize /\ img.decoded = f.inflated
      /\ img.initial_sp = f.sp /\ img.reset_vector = f.reset
  BY <1>3 DEF ImageOf
<1>5. /\ img.transfer_body > 0 /\ img.transfer_body + SuffixSize = img.decoded
      /\ Profile.app_flash_start + img.transfer_body <= Profile.app_flash_end
  BY <1>1, <1>2, <1>4, ProfileAssumption DEF InRange, FlashCapacity
<1>6. img.initial_sp \in Profile.sram_start .. Profile.sram_end - 1
  BY <1>1, <1>2, <1>4, ProfileAssumption DEF SoundVectors, InRam
<1>7. /\ f.reset - 1 \in Profile.app_flash_start .. Profile.app_flash_end - 1
      /\ f.reset = (f.reset - 1) + 1 /\ ((f.reset - 1) % 2) = 0
  BY <1>1, <1>2, ProfileAssumption DEF SoundVectors, Thumb, InFlash
<1> QED
  BY <1>4, <1>5, <1>6, <1>7 DEF LandsInFlash

LEMMA OneElement ==
  ASSUME NEW S, IsFiniteSet(S), Cardinality(S) = 1, NEW x \in S, NEW y \in S
  PROVE  x = y
BY FS_Singleton

LEMMA ThreeAreFinite ==
  ASSUME NEW a, NEW b, NEW c
  PROVE  IsFiniteSet({a, b, c})
<1>1. IsFiniteSet({a})
  BY FS_Singleton
<1>2. IsFiniteSet({a} \cup {b})
  BY <1>1, FS_AddElement
<1>3. IsFiniteSet(({a} \cup {b}) \cup {c})
  BY <1>2, FS_AddElement
<1>4. ({a} \cup {b}) \cup {c} = {a, b, c}
  OBVIOUS
<1> QED
  BY <1>3, <1>4

LEMMA InspectedIsWhole ==
  ASSUME NEW f \in Files, NEW t, Inspects(f, t)
  PROVE  WholeContent(ImageOf(f))
<1> DEFINE names == {Canonical(f.models[i]) : i \in DOMAIN f.models}
<1>1. {f.declared, f.inflated, f.sp, f.reset} \subseteq Nat /\ DOMAIN f.models = 1 .. 3
  BY FilesAssumption
<1>2. f.stream = "whole" /\ Output(f) = f.declared /\ Output(f) <= Limit
  BY DEF Inspects, Decodes, Inflates, Eof
<1>3. Output(f) = f.inflated
  BY <1>1, <1>2, ProfileAssumption DEF Output, Smaller, Limit
<1>4. \A i \in DOMAIN f.models : Canonical(f.models[i]) = Canonical(f.models[1])
  <2>1. Cardinality(names) = 1
    BY DEF Inspects, Identified
  <2>2. names = {Canonical(f.models[1]), Canonical(f.models[2]), Canonical(f.models[3])}
    BY <1>1
  <2>3. IsFiniteSet({Canonical(f.models[1]), Canonical(f.models[2]), Canonical(f.models[3])})
    BY ThreeAreFinite
  <2>4. IsFiniteSet(names)
    <3> HIDE DEF names
    <3> QED
      BY <2>2, <2>3
  <2> QED
    BY <1>1, <2>1, <2>4, OneElement
<1>5. ImageOf(f).decoded = f.inflated /\ ImageOf(f).model = f.models[1]
  BY <1>3 DEF ImageOf
<1> QED
  BY <1>2, <1>3, <1>4, <1>5 DEF WholeContent

(* An allowing report is about an image made for the device.               *)
LEMMA AllowedIsMadeFor ==
  ASSUME NEW device, NEW img, NEW confirmed, NEW t,
         Allowed(Issues(device, img, confirmed, t))
  PROVE  MadeFor(device, img) /\ WindowOpen(img.suffix, t)
<1> DEFINE issues == Issues(device, img, confirmed, t)
<1>0. /\ ModelIssues(device, img) \subseteq Warnings
      /\ CellIssues(device) \subseteq Warnings
      /\ VersionIssues(device, img) \subseteq Warnings
      /\ WindowIssue(img, t) \subseteq Warnings
  BY DEF Issues, Allowed
<1>1. /\ device.model.valid /\ img.model.valid
      /\ device.model.name = img.model.name /\ device.model.name \in Profile.models
  BY <1>0 DEF ModelIssues, Issue, Warnings, ValidModel, Canonical
<1>2. /\ device.max_cells \in 1 .. Profile.max_supported_cells
      /\ Encodes[device.model.name] \in {0, device.max_cells}
  BY <1>0, <1>1 DEF CellIssues, Issue, Warnings, ValidModel, Canonical
<1>3. /\ Len(device.software.numbers) = 2 /\ Len(img.version.numbers) = 2
      /\ Major(device.software) = device.hardware
      /\ Major(img.version) = device.hardware
  BY <1>0 DEF VersionIssues, Issue, Warnings, ValidRelease, ValidHardware
<1>4. {Profile.hardware_major, Profile.firmware_major} \subseteq {0, device.hardware}
  BY <1>0, <1>3 DEF VersionIssues, Issue, Warnings, ValidRelease, ValidHardware, WrongMajor
<1>5. WindowOpen(img.suffix, t)
  BY <1>0 DEF WindowIssue, Issue, Warnings
<1> QED
  BY <1>1, <1>2, <1>3, <1>4, <1>5 DEF MadeFor
-------------------------------------------------------------------------------
(* What the session and the screens hold is an identity, an image or a     *)
(* flash; a flash that goes on has a session that flashes.                 *)
TypedInv ==
  /\ TypeOK
  /\ connected \in Identities \cup {None} /\ shown \in Identities
  /\ image \in Images \cup {None} /\ progress \in Flashes \cup {None}
  /\ approval # None => approval.identity \in Identities /\ approval.image \in Images
  /\ progress # None /\ progress.step \in {"approved", "booted"} => flashes

LEMMA AdoptedIdentity ==
  ASSUME NEW device \in Identities, NEW f \in Files
  PROVE  Adopted(device, f.version) \in Identities
<1>1. CASE device \in Devices
  BY <1>1 DEF Identities
<1>2. ASSUME NEW d \in Devices, NEW g \in Files, device = Adopted(d, g.version)
      PROVE  Adopted(device, f.version) \in Identities
  <2>1. Adopted(device, f.version) = Adopted(d, f.version)
    BY <1>2 DEF Adopted
  <2> QED
    BY <2>1 DEF Identities
<1> QED
  BY <1>1, <1>2 DEF Identities

LEMMA AdoptedVersion ==
  ASSUME NEW device \in Identities, NEW img \in Images
  PROVE  /\ Adopted(device, img.version) \in Identities
         /\ Unit(Adopted(device, img.version)) = Unit(device)
<1>1. PICK f \in Files : img.version = f.version
  BY DEF Images, ImageOf
<1>2. Adopted(device, img.version) \in Identities
  BY <1>1, AdoptedIdentity
<1>3. DOMAIN device = {"serial", "model", "max_cells", "hardware", "software"}
  BY DevicesAssumption DEF Identities, Adopted
<1>4. Unit(Adopted(device, img.version)) = Unit(device)
  BY <1>3 DEF Unit, Adopted
<1> QED
  BY <1>2, <1>4

LEMMA TypedInit == Init => TypedInv
<1> SUFFICES ASSUME Init PROVE TypedInv
  OBVIOUS
<1>1. connected \in Identities /\ connected # None /\ shown \in Identities
  BY NoneAssumption DEF Init, Identities
<1>2. flashes \in BOOLEAN
  BY DEF Init, Selects
<1>3. TypeOK
  BY <1>1, <1>2 DEF Init, TypeOK
<1> QED
  BY <1>1, <1>3 DEF Init, TypedInv

(* Another connect worker.                                                 *)
LEMMA ConnectTyped ==
  ASSUME TypedInv, Disconnect \/ Connect
  PROVE  TypedInv'
<1>1. UNCHANGED <<screen, image, report, button, progress, now>>
  BY DEF Disconnect, Connect, review
<1>2. ~(progress # None /\ progress.step \in {"approved", "booted"})
  BY DEF Disconnect, Connect, Locked, TypedInv, TypeOK
<1>3. CASE Disconnect
  BY <1>1, <1>2, <1>3 DEF Disconnect, TypedInv, TypeOK
<1>4. CASE Connect
  <2>1. CASE UNCHANGED <<connected, flashes, second, approval, shown>>
    BY <1>1, <1>2, <1>4, <2>1 DEF Connect, TypedInv, TypeOK
  <2>2. CASE /\ connected' \in Devices /\ flashes' = Selects(connected')
             /\ second' = TRUE /\ approval' = None
             /\ shown' \in IF screen = "dashboard" THEN {shown, connected'} ELSE {shown}
    <3>1. connected' \in Identities /\ shown' \in Identities /\ connected' # None
      BY <2>2, NoneAssumption DEF Identities, TypedInv
    <3>2. flashes' \in BOOLEAN
      BY <2>2 DEF Selects
    <3> QED
      BY <1>1, <1>2, <1>4, <2>2, <3>1, <3>2 DEF Connect, TypedInv, TypeOK
  <2> QED
    BY <1>4, <2>1, <2>2 DEF Connect
<1> QED
  BY <1>3, <1>4

(* What leaves the firmware screen empty, or only the button disabled.     *)
LEMMA ForgetTyped ==
  ASSUME TypedInv,
         Upgrade \/ Back \/ Reload \/ SelectNothing \/ Return
           \/ \E f \in Files : InspectFails(f) \/ PreflightRaises(f)
  PROVE  TypedInv'
<1>1. CASE Upgrade
  <2>1. shown' \in Identities
    BY <1>1 DEF Upgrade, Readable, TypedInv, TypeOK
  <2> QED
    BY <1>1, <2>1 DEF Upgrade, session, review, TypedInv, TypeOK
<1>2. CASE Back \/ Reload \/ SelectNothing \/ Return
             \/ \E f \in Files : InspectFails(f) \/ PreflightRaises(f)
  BY <1>2 DEF Back, Reload, SelectNothing, Return, InspectFails, PreflightRaises,
              Forget, session, review, TypedInv, TypeOK
<1> QED
  BY <1>1, <1>2

LEMMA InspectTyped ==
  ASSUME TypedInv, NEW f \in Files, InspectAndPreflight(f)
  PROVE  TypedInv'
<1>1. /\ image' \in Images /\ now' \in Times /\ report' = Issues(shown, image', {}, now')
      /\ shown \in Identities /\ {} \in SUBSET {"reinstall", "downgrade"}
  BY DEF InspectAndPreflight, Images, TypedInv
<1>2. report' # None /\ image' # None
  BY <1>1, NoneAssumption
<1>3. button' \in Changes \cup {"disabled"}
  BY DEF InspectAndPreflight, Offer, Changes
<1>4. /\ screen = "firmware" /\ now' \in Times /\ disturbed' \in BOOLEAN
      /\ UNCHANGED <<connected, flashes, connecting, second, screen, shown, progress>>
  BY DEF InspectAndPreflight
<1>5. approval' # None => approval'.identity \in Identities /\ approval'.image \in Images
  BY <1>1 DEF InspectAndPreflight, Approve
<1> QED
  BY <1>1, <1>2, <1>3, <1>4, <1>5 DEF TypedInv, TypeOK

(* What is done from the second dashboard.                                 *)
LEMMA OtherTyped ==
  ASSUME TypedInv, OtherFlash \/ \E f \in Files : OtherReview(f)
  PROVE  TypedInv'
<1>1. /\ flashes /\ connected \in Identities /\ connected # None
      /\ UNCHANGED <<flashes, connecting, second, screen, shown, image, report, button, progress>>
      /\ now' \in Times /\ disturbed' = TRUE
  BY DEF OtherFlash, OtherReview, review, TypedInv, TypeOK
<1>2. connected' \in Identities /\ connected' # None
  BY <1>1, AdoptedVersion, NoneAssumption DEF OtherFlash, OtherReview, TypedInv
<1>3. approval' # None => approval'.identity \in Identities /\ approval'.image \in Images
  BY <1>1 DEF OtherFlash, OtherReview, Approve, Images
<1> QED
  BY <1>1, <1>2, <1>3 DEF TypedInv, TypeOK

LEMMA StartFlashTyped ==
  ASSUME TypedInv, StartFlash
  PROVE  TypedInv'
<1>1. /\ screen = "firmware" /\ button \in Changes /\ image \in Images /\ image # None
      /\ UNCHANGED <<session, shown, image, button>>
  BY DEF StartFlash, TypedInv, TypeOK
<1>2. /\ report' # None /\ now' \in Times
      /\ approval' # None => approval'.identity \in Identities /\ approval'.image \in Images
  <2>1. CASE UNCHANGED <<report, approval, now>>
    BY <2>1 DEF StartFlash, TypedInv, TypeOK
  <2>2. CASE Preflight
    <3>1. Confirmed \in SUBSET {"reinstall", "downgrade"} /\ shown \in Identities
      BY DEF Confirmed, TypedInv
    <3>2. /\ report' = Issues(shown, image, Confirmed, now') /\ now' \in Times
          /\ Approve(shown, image, report')
      BY <2>2 DEF Preflight
    <3> QED
      BY <1>1, <3>1, <3>2, NoneAssumption DEF Approve
  <2> QED
    BY <2>1, <2>2 DEF StartFlash, PreflightUnavailable
<1>3. CASE UNCHANGED <<screen, progress>>
  BY <1>1, <1>2, <1>3 DEF session, TypedInv, TypeOK
<1>4. CASE PushProgress
  <2>1. Note \in Changes
    BY DEF Note, Changes
  <2>2. screen' = "progress" /\ progress' \in Flashes /\ progress'.step = "asked"
    BY <1>1, <1>4, <2>1 DEF PushProgress, Flashes, TypedInv
  <2>3. progress' # None
    BY <2>2, NoneAssumption
  <2>4. {progress'.note, progress'.offered} \subseteq Changes
    BY <2>2 DEF Flashes
  <2> QED
    BY <1>1, <1>2, <2>2, <2>3, <2>4 DEF session, TypedInv, TypeOK
<1> QED
  BY <1>3, <1>4 DEF StartFlash, Preflight, PreflightUnavailable

LEMMA FlashTyped ==
  ASSUME TypedInv, TakeApproval \/ Boot \/ Stop \/ End
  PROVE  TypedInv'
<1>1. /\ screen = "progress" /\ progress \in Flashes /\ progress # None
      /\ UNCHANGED <<flashes, connecting, second, disturbed, screen, shown, review, now>>
  BY DEF TakeApproval, Boot, Stop, End, session, TypedInv, TypeOK
<1>2. /\ connected' \in Identities \cup {None}
      /\ flashes => connected' # None
  <2>1. CASE UNCHANGED connected
    BY <2>1 DEF TypedInv, TypeOK
  <2>2. CASE End
    <3>1. progress.image \in Images
      BY <1>1 DEF Flashes
    <3>2. connected \in Identities
      BY <1>1, <2>2 DEF End, TypedInv, TypeOK
    <3> QED
      BY <2>2, <3>1, <3>2, AdoptedVersion, NoneAssumption DEF End
  <2> QED
    BY <2>1, <2>2 DEF TakeApproval, Boot, Stop, session
<1>3. PICK step \in {"approved", "booted", "ended"} :
        progress' = [progress EXCEPT !.step = step]
  BY DEF TakeApproval, Boot, Stop, End, To
<1>4. progress' \in Flashes
  BY <1>1, <1>3 DEF Flashes
<1>5. progress' # None
  BY <1>4, NoneAssumption
<1>6. /\ progress'.step \in {"asked", "approved", "booted", "ended"}
      /\ {progress'.note, progress'.offered} \subseteq Changes
  BY <1>4 DEF Flashes
<1>7. progress'.step \in {"approved", "booted"} => flashes
  <2>1. progress'.step = step
    BY <1>1, <1>3 DEF Flashes
  <2>2. CASE step \in {"approved", "booted"} /\ progress.step \notin {"approved", "booted"}
    <3>1. TakeApproval
      BY <2>2, <1>1 DEF TakeApproval, Boot, Stop, End
    <3>2. MayFlash
      BY <1>1, <1>3, <2>1, <2>2, <3>1 DEF TakeApproval, To, Flashes
    <3> QED
      BY <3>2 DEF MayFlash
  <2> QED
    BY <1>1, <2>1, <2>2 DEF TypedInv
<1>8. approval' # None => approval' = approval
  BY DEF TakeApproval, Boot, Stop, End
<1> QED
  BY <1>1, <1>2, <1>4, <1>5, <1>6, <1>7, <1>8 DEF review, TypedInv, TypeOK

LEMMA TypedNext == TypedInv /\ [Next]_vars => TypedInv'
<1> SUFFICES ASSUME TypedInv, [Next]_vars PROVE TypedInv'
  OBVIOUS
<1>1. CASE Disconnect \/ Connect
  BY <1>1, ConnectTyped
<1>2. CASE Tick \/ UNCHANGED vars
  BY <1>2 DEF Tick, vars, session, review, TypedInv, TypeOK
<1>3. CASE \E f \in Files : InspectAndPreflight(f)
  BY <1>3, InspectTyped
<1>4. CASE StartFlash
  BY <1>4, StartFlashTyped
<1>5. CASE TakeApproval \/ Boot \/ Stop \/ End
  BY <1>5, FlashTyped
<1>6. CASE OtherFlash \/ \E f \in Files : OtherReview(f)
  BY <1>6, OtherTyped
<1>7. CASE Upgrade \/ Back \/ Reload \/ SelectNothing \/ Return
             \/ \E f \in Files : InspectFails(f) \/ PreflightRaises(f)
  BY <1>7, ForgetTyped
<1> QED
  BY <1>1, <1>2, <1>3, <1>4, <1>5, <1>6, <1>7 DEF Next

LEMMA TypedInvariant == Spec => []TypedInv
BY TypedInit, TypedNext, PTL DEF Spec

(* A button that can be pressed has an image and a report behind it, a     *)
(* flash goes on only on its screen, and a session that flashes has a unit *)
(* and is not being replaced.                                              *)
THEOREM ScreensAreTyped == Spec => []TypeOK
<1>1. TypedInv => TypeOK
  BY DEF TypedInv
<1> QED
  BY <1>1, TypedInvariant, PTL
-------------------------------------------------------------------------------
(* The inductive invariant.  What is on the firmware screen was reviewed   *)
(* for the connected identity unless the session has changed hands since;  *)
(* a flash that goes on is for the connected identity, whatever approval   *)
(* another screen asks for meanwhile.                                      *)
Justified(device, img) == MadeFor(device, img) /\ LandsInFlash(img)

ReviewInv ==
  /\ screen \in {"dashboard", "firmware", "progress"}
  /\ screen = "dashboard" => image = None
  /\ connecting => disturbed /\ approval = None
  /\ screen = "firmware" /\ image # None /\ ~disturbed => flashes /\ shown = connected

ProgressInv ==
  screen = "progress" =>
    /\ progress = [step |-> progress.step, identity |-> progress.identity,
                   image |-> progress.image, note |-> progress.note,
                   offered |-> progress.offered]
    /\ progress.step \in {"asked", "approved", "booted", "ended"}
    /\ progress.step \in {"approved", "booted"} =>
         progress.identity = connected /\ Justified(connected, progress.image)

PreparationInv ==
  ReviewInv /\ ImageIsSound /\ ApprovalIsJustified /\ ProgressInv

LEMMA InitInv == Init => PreparationInv
BY DEF Init, PreparationInv, ReviewInv, ImageIsSound, ApprovalIsJustified, ProgressInv

LEMMA ConnectInv ==
  ASSUME PreparationInv, TypedInv, Disconnect \/ Connect
  PROVE  PreparationInv'
<1>1. UNCHANGED <<screen, image, report, button, progress>>
  BY DEF Disconnect, Connect, review
<1>2. screen = "progress" => progress.step \notin {"approved", "booted"}
  BY DEF Disconnect, Connect, Locked, TypedInv, TypeOK
<1>3. approval' = None /\ disturbed' = TRUE
  BY DEF Disconnect, Connect, PreparationInv, ReviewInv, TypedInv, TypeOK
<1>4. ReviewInv'
  BY <1>1, <1>3 DEF PreparationInv, ReviewInv
<1>5. ImageIsSound' /\ ApprovalIsJustified'
  BY <1>1, <1>3 DEF PreparationInv, ImageIsSound, ApprovalIsJustified
<1>6. ProgressInv'
  BY <1>1, <1>2 DEF PreparationInv, ProgressInv
<1> QED
  BY <1>4, <1>5, <1>6 DEF PreparationInv

LEMMA SameInv ==
  PreparationInv /\ UNCHANGED <<session, approval, screen, shown, review, progress>>
    => PreparationInv'
BY DEF session, review, PreparationInv, ReviewInv, ImageIsSound,
       ApprovalIsJustified, ProgressInv, Justified

(* Whatever leaves the screen empty, or only the button disabled.          *)
LEMMA ForgetInv ==
  ASSUME PreparationInv,
         Upgrade \/ Back \/ Reload \/ SelectNothing \/ Return
           \/ \E f \in Files : InspectFails(f) \/ PreflightRaises(f)
  PROVE  PreparationInv'
<1>1. ReviewInv'
  BY DEF Upgrade, Back, Reload, SelectNothing, Return, InspectFails, PreflightRaises,
         Forget, session, review, PreparationInv, ReviewInv
<1>2. ImageIsSound'
  BY DEF Upgrade, Back, Reload, SelectNothing, Return, InspectFails, PreflightRaises,
         Forget, session, review, PreparationInv, ImageIsSound
<1>3. ApprovalIsJustified'
  BY DEF Upgrade, Back, Reload, SelectNothing, Return, InspectFails, PreflightRaises,
         session, PreparationInv, ApprovalIsJustified
<1>4. ProgressInv'
  BY DEF Upgrade, Back, Reload, SelectNothing, Return, InspectFails, PreflightRaises,
         session, PreparationInv, ProgressInv
<1> QED
  BY <1>1, <1>2, <1>3, <1>4 DEF PreparationInv

LEMMA InspectInv ==
  ASSUME PreparationInv, TypedInv, NEW f \in Files, InspectAndPreflight(f)
  PROVE  PreparationInv'
<1>1. /\ screen = "firmware" /\ screen' = "firmware"
      /\ flashes /\ flashes' = flashes /\ connecting' = connecting
      /\ shown = connected /\ connected' = connected /\ shown' = shown
      /\ image' = ImageOf(f) /\ Inspects(f, now)
      /\ report' = Issues(shown, image', {}, now')
      /\ Approve(shown, image', report')
  BY DEF InspectAndPreflight
<1>2. LandsInFlash(ImageOf(f)) /\ WholeContent(ImageOf(f))
  BY <1>1, InspectedLands, InspectedIsWhole
<1>3. Allowed(report') => MadeFor(shown, image')
  BY <1>1, AllowedIsMadeFor
<1>4. connected # None /\ ~connecting
  BY <1>1 DEF TypedInv, TypeOK
<1>5. ReviewInv'
  BY <1>1, <1>4 DEF ReviewInv
<1>6. ImageIsSound'
  BY <1>1, <1>2 DEF ImageIsSound
<1>7. ApprovalIsJustified'
  BY <1>1, <1>2, <1>3, <1>4 DEF Approve, ApprovalIsJustified
<1>8. ProgressInv'
  BY <1>1 DEF ProgressInv
<1> QED
  BY <1>5, <1>6, <1>7, <1>8 DEF PreparationInv

LEMMA OtherReviewInv ==
  ASSUME PreparationInv, TypedInv, NEW f \in Files, OtherReview(f)
  PROVE  PreparationInv'
<1> DEFINE issues == Issues(connected, ImageOf(f), {}, now')
<1>1. /\ flashes /\ Inspects(f, now) /\ disturbed' = TRUE
      /\ UNCHANGED <<connected, connecting, screen, image, progress>>
      /\ Approve(connected, ImageOf(f), issues)
  BY DEF OtherReview, review
<1>2. LandsInFlash(ImageOf(f))
  BY <1>1, InspectedLands
<1>3. Allowed(issues) => MadeFor(connected, ImageOf(f))
  BY AllowedIsMadeFor
<1>4. connected # None /\ ~connecting
  BY <1>1 DEF TypedInv, TypeOK
<1>5. ReviewInv'
  BY <1>1, <1>4 DEF PreparationInv, ReviewInv
<1>6. ImageIsSound'
  BY <1>1 DEF PreparationInv, ImageIsSound
<1>7. ApprovalIsJustified'
  <2> HIDE DEF issues
  <2> QED
    BY <1>1, <1>2, <1>3, <1>4 DEF Approve, ApprovalIsJustified
<1>8. ProgressInv'
  BY <1>1 DEF PreparationInv, ProgressInv
<1> QED
  BY <1>5, <1>6, <1>7, <1>8 DEF PreparationInv

LEMMA OtherFlashInv ==
  ASSUME PreparationInv, TypedInv, OtherFlash
  PROVE  PreparationInv'
<1>1. /\ approval' = None /\ disturbed' = TRUE
      /\ UNCHANGED <<connecting, screen, image, progress>>
      /\ screen = "progress" => progress.step \notin {"approved", "booted"}
  BY DEF OtherFlash, Locked, review
<1> QED
  BY <1>1 DEF PreparationInv, ReviewInv, ImageIsSound, ApprovalIsJustified, ProgressInv

LEMMA StartFlashInv ==
  ASSUME PreparationInv, TypedInv, StartFlash
  PROVE  PreparationInv'
<1>1. /\ screen = "firmware" /\ image # None
      /\ UNCHANGED <<connected, flashes, connecting, second, disturbed, shown, image>>
      /\ LandsInFlash(image) /\ WholeContent(image)
  BY DEF StartFlash, session, PreparationInv, ImageIsSound
<1>2. ImageIsSound'
  BY <1>1 DEF ImageIsSound
<1>3. PushProgress => /\ screen' = "progress" /\ ProgressInv'
  BY DEF PushProgress, ProgressInv
<1>4. CASE UNCHANGED <<approval, screen, progress>>
  BY <1>1, <1>2, <1>4 DEF PreparationInv, ReviewInv, ApprovalIsJustified, ProgressInv
<1>5. CASE PushProgress /\ UNCHANGED approval
  BY <1>1, <1>2, <1>3, <1>5 DEF PreparationInv, ReviewInv, ApprovalIsJustified
<1>6. CASE Preflight
  <2>1. /\ report' = Issues(shown, image, Confirmed, now')
        /\ Approve(shown, image, report')
        /\ PushProgress \/ UNCHANGED <<screen, progress>>
        /\ flashes /\ shown = connected
    BY <1>6 DEF Preflight
  <2>2. Allowed(report') => MadeFor(shown, image)
    BY <2>1, AllowedIsMadeFor
  <2>3. connected # None /\ ~connecting
    BY <2>1 DEF TypedInv, TypeOK
  <2>4. ReviewInv'
    BY <1>1, <1>3, <2>1, <2>3 DEF ReviewInv
  <2>5. ApprovalIsJustified'
    BY <1>1, <2>1, <2>2, <2>3 DEF Approve, ApprovalIsJustified
  <2>6. ProgressInv'
    BY <1>1, <1>3, <2>1 DEF ProgressInv
  <2> QED
    BY <1>2, <2>4, <2>5, <2>6 DEF PreparationInv
<1> QED
  BY <1>4, <1>5, <1>6 DEF StartFlash, PreflightUnavailable

(* An approval that is accepted is the session's; the software a flash     *)
(* leaves behind is adopted for the same unit.                             *)
LEMMA FlashInv ==
  ASSUME PreparationInv, TypedInv, TakeApproval \/ Boot \/ Stop \/ End
  PROVE  PreparationInv'
<1>1. ReviewInv' /\ ImageIsSound'
  BY DEF TakeApproval, Boot, Stop, End, session, review, PreparationInv, ReviewInv,
         ImageIsSound
<1>2. CASE TakeApproval
  <2>1. ApprovalIsJustified'
    BY <1>2 DEF TakeApproval, session, PreparationInv, ApprovalIsJustified
  <2>2. ProgressInv'
    BY <1>2 DEF TakeApproval, MayFlash, Accepted, To, session, PreparationInv,
                ApprovalIsJustified, ProgressInv, Justified
  <2> QED
    BY <1>1, <2>1, <2>2 DEF PreparationInv
<1>3. CASE Boot \/ Stop
  BY <1>1, <1>3 DEF Boot, Stop, To, session, PreparationInv, ApprovalIsJustified,
                    ProgressInv, Justified
<1>4. CASE End
  <2>1. progress # None /\ progress \in Flashes /\ flashes
    BY <1>4 DEF End, TypedInv, TypeOK
  <2>2. connected \in Identities /\ progress.image \in Images
    BY <2>1 DEF Flashes, TypedInv, TypeOK
  <2>3. connected' # None /\ Unit(connected') = Unit(connected)
    BY <1>4, <2>2, AdoptedVersion, NoneAssumption DEF End
  <2>4. ApprovalIsJustified'
    BY <1>4, <2>3 DEF End, PreparationInv, ApprovalIsJustified
  <2>5. ProgressInv'
    BY <1>4 DEF End, To, PreparationInv, ProgressInv
  <2> QED
    BY <1>1, <2>4, <2>5 DEF PreparationInv
<1> QED
  BY <1>2, <1>3, <1>4
-------------------------------------------------------------------------------
LEMMA NextInv == PreparationInv /\ TypedInv /\ [Next]_vars => PreparationInv'
<1> SUFFICES ASSUME PreparationInv, TypedInv, [Next]_vars PROVE PreparationInv'
  OBVIOUS
<1>1. CASE Disconnect \/ Connect
  BY <1>1, ConnectInv
<1>2. CASE Tick \/ UNCHANGED vars
  BY <1>2, SameInv DEF Tick, vars
<1>3. CASE \E f \in Files : InspectAndPreflight(f)
  BY <1>3, InspectInv
<1>4. CASE StartFlash
  BY <1>4, StartFlashInv
<1>5. CASE TakeApproval \/ Boot \/ Stop \/ End
  BY <1>5, FlashInv
<1>6. CASE Upgrade \/ Back \/ Reload \/ SelectNothing \/ Return
             \/ \E f \in Files : InspectFails(f) \/ PreflightRaises(f)
  BY <1>6, ForgetInv
<1>7. CASE OtherFlash
  BY <1>7, OtherFlashInv
<1>8. CASE \E f \in Files : OtherReview(f)
  BY <1>8, OtherReviewInv
<1> QED
  BY <1>1, <1>2, <1>3, <1>4, <1>5, <1>6, <1>7, <1>8 DEF Next

(* Any sequence of screens, files, presses, flashes, connections and uses  *)
(* of the session by another screen keeps the invariant.                   *)
THEOREM PreparationInvariant == Spec => []PreparationInv
BY InitInv, NextInv, TypedInvariant, PTL DEF Spec

(* No image that would not land in the application's flash, and none that  *)
(* is only part of a file, reaches the firmware screen.                    *)
THEOREM SoundImages == Spec => []ImageIsSound
<1>1. PreparationInv => ImageIsSound
  BY DEF PreparationInv
<1> QED
  BY <1>1, PreparationInvariant, PTL

(* The session never holds an approval for another unit than its own, nor  *)
(* for an image that was not made for it.                                  *)
THEOREM JustifiedApprovals == Spec => []ApprovalIsJustified
<1>1. PreparationInv => ApprovalIsJustified
  BY DEF PreparationInv
<1> QED
  BY <1>1, PreparationInvariant, PTL

(* Nor does it enter the bootloader for one, or outside its window.        *)
THEOREM JustifiedBoot == Spec => BootIsJustified
<1> DEFINE Booting ==
  progress # None /\ progress' # None /\ progress.step # "booted" /\ progress'.step = "booted"
<1>1. ASSUME PreparationInv, [Next]_vars, Booting
      PROVE  Boot
  BY <1>1 DEF Next, vars, Disconnect, Connect, Tick, Upgrade, Back, Reload, SelectNothing,
              InspectFails, PreflightRaises, InspectAndPreflight, StartFlash,
              Preflight, PreflightUnavailable, PushProgress, TakeApproval, Stop, End,
              OtherFlash, OtherReview, Return, To, PreparationInv, ProgressInv
<1>2. ASSUME PreparationInv, [Next]_vars
      PROVE  Booting => /\ progress.identity = connected
                        /\ MadeFor(connected, progress.image)
                        /\ LandsInFlash(progress.image)
                        /\ WindowOpen(progress.image.suffix, now)
  BY <1>1, <1>2 DEF Boot, StillValid, PreparationInv, ProgressInv, Justified
<1> QED
  BY <1>2, PreparationInvariant, PTL DEF Spec, BootIsJustified
-------------------------------------------------------------------------------
(* Confirmations.  The change of version decides which issues ask for one. *)
Asks(device, img, confirmed) ==
  CASE ChangeOf(device, img) = "downgrade" ->
         {IF "downgrade" \in confirmed THEN "downgrade" ELSE "downgrade_confirmation_required"}
    [] ChangeOf(device, img) = "reinstall" ->
         {IF "reinstall" \in confirmed THEN "reinstall" ELSE "reinstall_confirmation_required"}
    [] OTHER -> {}

Releases(device, img) ==
  /\ ValidRelease(device.software) /\ ValidRelease(img.version)
  /\ img.version.numbers \in Seq(Nat)

LEMMA OneChange ==
  ASSUME NEW device, NEW img, Releases(device, img)
  PROVE  /\ ChangeOf(device, img) \in Changes
         /\ ChangeOf(device, img) = "downgrade"
              <=> Older(img.version.numbers, device.software.numbers)
         /\ ChangeOf(device, img) = "reinstall"
              <=> img.version.numbers = device.software.numbers
<1>1. ~Older(img.version.numbers, img.version.numbers)
  <2>1. img.version.numbers[1] \in Nat /\ img.version.numbers[2] \in Nat
    BY DEF Releases, ValidRelease
  <2> QED
    BY <2>1 DEF Older
<1> QED
  BY <1>1 DEF ChangeOf, Changes

LEMMA DirectionAsks ==
  ASSUME NEW device, NEW img, NEW confirmed, Releases(device, img)
  PROVE  DirectionIssues(device, img, confirmed) = Asks(device, img, confirmed)
BY OneChange DEF DirectionIssues, Issue, Asks, Releases, Changes

(* The issues that no confirmation and no clock changes.                   *)
Structural(device, img) ==
  ModelIssues(device, img) \cup CellIssues(device) \cup VersionIssues(device, img)
    \cup ImageIssues(img)

LEMMA NotBlocking ==
  ASSUME NEW device, NEW img, NEW confirmed, NEW t,
         ~Blocking(Issues(device, img, confirmed, t))
  PROVE  /\ Structural(device, img) = {} /\ WindowIssue(img, t) = {}
         /\ ValidRelease(device.software) /\ ValidRelease(img.version)
<1>0. \A part \in {ModelIssues(device, img), CellIssues(device), VersionIssues(device, img),
                  ImageIssues(img), WindowIssue(img, t)} :
        part \subseteq Warnings \cup Confirmable
  BY DEF Blocking, Issues
<1>1. ModelIssues(device, img) = {}
  BY <1>0 DEF ModelIssues, Issue, Warnings, Confirmable
<1>2. CellIssues(device) = {}
  BY <1>0 DEF CellIssues, Issue, Warnings, Confirmable
<1>3. /\ VersionIssues(device, img) = {}
      /\ ValidRelease(device.software) /\ ValidRelease(img.version)
  BY <1>0 DEF VersionIssues, Issue, Warnings, Confirmable
<1>4. ImageIssues(img) = {}
  BY <1>0 DEF ImageIssues, Issue, Warnings, Confirmable
<1>5. WindowIssue(img, t) = {}
  BY <1>0 DEF WindowIssue, Issue, Warnings, Confirmable
<1> QED
  BY <1>1, <1>2, <1>3, <1>4, <1>5 DEF Structural

(* An enabled button was reviewed: nothing but the validity window can be  *)
(* in the way, and it offers the change of version.  The report behind it  *)
(* asks for that change to be confirmed, or has been approved where there  *)
(* is none to confirm; or it is the refusal of an earlier press.           *)
Asked(issues, device, img) ==
  /\ "downgrade_confirmation_required" \in issues <=> ChangeOf(device, img) = "downgrade"
  /\ "reinstall_confirmation_required" \in issues <=> ChangeOf(device, img) = "reinstall"

ButtonInv ==
  /\ screen = "dashboard" => button = "disabled"
  /\ screen = "firmware" /\ button # "disabled" =>
       /\ Releases(shown, image) /\ Structural(shown, image) = {}
       /\ button = ChangeOf(shown, image)
       /\ IF Blocking(report)
          THEN report \ Warnings = {"firmware_suffix_metadata_invalid"}
          ELSE /\ Asked(report, shown, image)
               /\ ChangeOf(shown, image) = "upgrade" /\ ~disturbed
                    => approval = [identity |-> shown, image |-> image]

NoteInv ==
  /\ progress # None => screen = "progress"
  /\ screen = "progress" =>
       LET change == ChangeOf(progress.identity, progress.image)
       IN  progress.offered = change /\ progress.note = change

FullInv == PreparationInv /\ ButtonInv /\ NoteInv

LEMMA InspectButton ==
  ASSUME NEW f \in Files, InspectAndPreflight(f)
  PROVE  ButtonInv'
<1> SUFFICES ASSUME button' # "disabled" PROVE ButtonInv'
  BY DEF ButtonInv
<1>0. screen' = "firmware"
  BY DEF InspectAndPreflight
<1>1. /\ image' = ImageOf(f) /\ shown' = shown
      /\ report' = Issues(shown, image', {}, now')
      /\ Approve(shown, image', report')
      /\ ~Blocking(report') /\ button' = Offer(report')
  BY DEF InspectAndPreflight
<1>2. image'.version.numbers \in Seq(Nat)
  BY <1>1, FilesAssumption DEF ImageOf
<1>3. /\ Releases(shown, image') /\ Structural(shown, image') = {}
      /\ WindowIssue(image', now') = {}
  BY <1>1, <1>2, NotBlocking DEF Releases
<1>4. report' = Asks(shown, image', {})
  BY <1>1, <1>3, DirectionAsks DEF Issues, Structural
<1>5. Asked(report', shown, image') /\ button' = ChangeOf(shown, image')
  BY <1>1, <1>3, <1>4, OneChange DEF Asked, Asks, Offer, Changes
<1>6. ChangeOf(shown, image') = "upgrade" => approval' = [identity |-> shown, image |-> image']
  BY <1>1, <1>4 DEF Asks, Approve, Allowed
<1> QED
  BY <1>0, <1>1, <1>3, <1>5, <1>6 DEF ButtonInv, Asked

(* A press, seen through its change of version.                            *)
LEMMA Pressed ==
  ASSUME ButtonInv, StartFlash, ~Blocking(report)
  PROVE  /\ SameVersion <=> ChangeOf(shown, image) = "reinstall"
         /\ Downgraded <=> ChangeOf(shown, image) = "downgrade"
         /\ Note = ChangeOf(shown, image) /\ button = ChangeOf(shown, image)
<1>1. /\ Releases(shown, image) /\ Asked(report, shown, image)
      /\ button = ChangeOf(shown, image)
  BY DEF ButtonInv, StartFlash
<1>2. SameVersion <=> ChangeOf(shown, image) = "reinstall"
  BY <1>1, OneChange DEF SameVersion, Asked, Required
<1>3. Downgraded <=> ChangeOf(shown, image) = "downgrade"
  BY <1>1, OneChange DEF Downgraded, Asked, Required
<1> QED
  BY <1>1, <1>2, <1>3, OneChange DEF Note, Changes

LEMMA SecondPreflight ==
  ASSUME ButtonInv, StartFlash, ~Blocking(report), Preflight
  PROVE  /\ report' \subseteq Warnings \cup {"firmware_suffix_metadata_invalid"}
         /\ "firmware_suffix_metadata_invalid" \in report' <=> ~WindowOpen(image.suffix, now')
<1>1. /\ report' = Issues(shown, image, Confirmed, now')
      /\ Releases(shown, image) /\ Structural(shown, image) = {}
  BY DEF StartFlash, Preflight, ButtonInv
<1>2. report' = WindowIssue(image, now') \cup Asks(shown, image, Confirmed)
  BY <1>1, DirectionAsks DEF Issues, Structural
<1>3. Asks(shown, image, Confirmed) \subseteq Warnings
  BY Pressed DEF Asks, Confirmed, Warnings
<1> QED
  BY <1>2, <1>3 DEF WindowIssue, Issue, Warnings

(* A press that is refused now leaves a refusal behind.                    *)
LEMMA Refused ==
  ASSUME ButtonInv, StartFlash, ~Blocking(report), Preflight, screen' # "progress"
  PROVE  /\ Blocking(report') /\ report' \ Warnings = {"firmware_suffix_metadata_invalid"}
         /\ ~WindowOpen(image.suffix, now')
<1>1. ~Allowed(report')
  BY DEF Preflight, PushProgress
<1> QED
  BY <1>1, SecondPreflight DEF Allowed, Blocking, Warnings, Confirmable

LEMMA StartFlashButton ==
  ASSUME ButtonInv, StartFlash
  PROVE  ButtonInv'
<1> SUFFICES ASSUME screen' # "progress" PROVE ButtonInv'
  BY DEF ButtonInv, StartFlash
<1>1. /\ screen = "firmware" /\ button # "disabled"
      /\ UNCHANGED <<connected, flashes, connecting, second, disturbed, shown, image, button>>
  BY DEF StartFlash, session
<1>2. screen' = screen
  BY DEF StartFlash, Preflight, PreflightUnavailable, PushProgress
<1>3. CASE UNCHANGED <<report, approval>>
  BY <1>1, <1>2, <1>3 DEF ButtonInv
<1>4. CASE ~Blocking(report) /\ Preflight
  BY <1>1, <1>2, <1>4, Refused DEF ButtonInv
<1> QED
  BY <1>3, <1>4 DEF StartFlash, PreflightUnavailable

LEMMA ButtonNext ==
  ASSUME FullInv, TypedInv, [Next]_vars
  PROVE  ButtonInv'
<1> USE DEF FullInv
<1>1. CASE StartFlash
  BY <1>1, StartFlashButton
<1>2. CASE \E f \in Files : InspectAndPreflight(f)
  BY <1>2, InspectButton
<1>3. CASE Upgrade
  BY <1>3 DEF Upgrade, review, PreparationInv, ReviewInv, ButtonInv
<1>4. CASE Tick \/ UNCHANGED vars
  BY <1>4 DEF Tick, vars, review, session, ButtonInv
<1>5. CASE Back \/ Reload \/ SelectNothing \/ Return
             \/ \E f \in Files : InspectFails(f) \/ PreflightRaises(f)
  BY <1>5 DEF Back, Reload, SelectNothing, Return, InspectFails, PreflightRaises,
              Forget, ButtonInv
<1>6. CASE TakeApproval \/ Boot \/ Stop \/ End
  BY <1>6 DEF TakeApproval, Boot, Stop, End, review, ButtonInv
<1>7. CASE Disconnect \/ Connect \/ OtherFlash \/ \E f \in Files : OtherReview(f)
  <2>1. UNCHANGED <<screen, image, report, button>>
    BY <1>7 DEF Disconnect, Connect, OtherFlash, OtherReview, review
  <2>2. disturbed' = TRUE
    BY <1>7 DEF Disconnect, Connect, OtherFlash, OtherReview, PreparationInv, ReviewInv
  <2>3. screen = "firmware" => shown' = shown
    BY <1>7 DEF Disconnect, Connect, OtherFlash, OtherReview
  <2>4. screen \in {"dashboard", "firmware", "progress"}
    BY DEF PreparationInv, ReviewInv
  <2> QED
    BY <2>1, <2>2, <2>3, <2>4 DEF ButtonInv
<1> QED
  BY <1>1, <1>2, <1>3, <1>4, <1>5, <1>6, <1>7 DEF Next

LEMMA NoteNext ==
  ASSUME FullInv, [Next]_vars
  PROVE  NoteInv'
<1> USE DEF FullInv
<1>1. CASE StartFlash
  <2>1. CASE UNCHANGED <<screen, progress>>
    BY <2>1 DEF NoteInv
  <2>2. CASE ~Blocking(report) /\ PushProgress
    BY <1>1, <2>2, Pressed DEF PushProgress, NoteInv
  <2> QED
    BY <1>1, <2>1, <2>2 DEF StartFlash, Preflight, PreflightUnavailable
<1>2. CASE TakeApproval \/ Boot \/ Stop \/ End
  <2>1. /\ screen = "progress" /\ screen' = screen
        /\ \E step \in {"approved", "booted", "ended"} :
             progress' = [progress EXCEPT !.step = step]
    BY <1>2 DEF TakeApproval, Boot, Stop, End, To
  <2>2. /\ progress'.identity = progress.identity /\ progress'.image = progress.image
        /\ progress'.note = progress.note /\ progress'.offered = progress.offered
    BY <2>1 DEF PreparationInv, ProgressInv
  <2> QED
    BY <2>1, <2>2 DEF NoteInv
<1>3. CASE Return
  BY <1>3 DEF Return, NoteInv
<1>4. CASE UNCHANGED progress /\ screen # "progress" /\ screen' # "progress"
  BY <1>4 DEF NoteInv
<1>5. CASE UNCHANGED <<progress, screen>>
  BY <1>5 DEF NoteInv
<1> QED
  BY <1>1, <1>2, <1>3, <1>4, <1>5
     DEF Next, vars, Disconnect, Connect, Tick, Upgrade, Back, Reload, SelectNothing,
         InspectFails, PreflightRaises, InspectAndPreflight, OtherFlash, OtherReview

(* With the button, and what the progress screen says.                     *)
THEOREM FullInvariant == Spec => []FullInv
<1>1. Init => FullInv
  BY InitInv DEF Init, FullInv, ButtonInv, NoteInv
<1>2. FullInv /\ TypedInv /\ [Next]_vars => FullInv'
  BY NextInv, ButtonNext, NoteNext DEF FullInv
<1> QED
  BY <1>1, <1>2, TypedInvariant, PTL DEF Spec

(* A flash is the change of version that the pressed button offered.       *)
THEOREM TrueConfirmations == Spec => []ConfirmationIsTrue
<1>1. FullInv => ConfirmationIsTrue
  BY DEF FullInv, NoteInv, ConfirmationIsTrue
<1> QED
  BY <1>1, FullInvariant, PTL

(* The two ways of working out a confirmation agree, so that while nobody  *)
(* else has the session an enabled button is refused for a validity window *)
(* that has closed, at this press or an earlier one, and for nothing else. *)
THEOREM PressesFlash == Spec => PressFlashes
<1>1. ASSUME FullInv, StartFlash, ~disturbed, screen' = "progress"
      PROVE  approval' = [identity |-> connected, image |-> image]
  <2>1. screen = "firmware" /\ shown = connected /\ ~Blocking(report)
    BY <1>1 DEF FullInv, PreparationInv, ReviewInv, StartFlash
  <2>2. CASE Preflight
    BY <1>1, <2>1, <2>2 DEF StartFlash, Preflight, PushProgress, Approve
  <2>3. CASE Confirmed = {} /\ UNCHANGED approval
    <3>1. ChangeOf(shown, image) = "upgrade"
      BY <1>1, <2>1, <2>3, Pressed, OneChange
         DEF FullInv, ButtonInv, StartFlash, Confirmed, Changes
    <3> QED
      BY <1>1, <2>1, <2>3, <3>1 DEF FullInv, ButtonInv, StartFlash
  <2> QED
    BY <1>1, <2>1, <2>2, <2>3 DEF StartFlash, PreflightUnavailable
<1>2. ASSUME FullInv, StartFlash, ~disturbed, screen' # "progress"
      PROVE  /\ report' \ Warnings = {"firmware_suffix_metadata_invalid"}
             /\ ~Blocking(report) => ~WindowOpen(image.suffix, now')
  <2>1. flashes /\ shown = connected
    BY <1>2 DEF FullInv, PreparationInv, ReviewInv, StartFlash
  <2>2. CASE Blocking(report)
    BY <1>2, <2>2 DEF StartFlash, FullInv, ButtonInv
  <2>3. CASE ~Blocking(report)
    <3>1. Preflight
      BY <1>2, <2>1, <2>3 DEF StartFlash, PreflightUnavailable, PushProgress
    <3> QED
      BY <1>2, <2>3, <3>1, Refused DEF FullInv
  <2> QED
    BY <2>2, <2>3
<1>3. FullInv => (StartFlash /\ ~disturbed =>
        IF screen' = "progress"
        THEN approval' = [identity |-> connected, image |-> image]
        ELSE /\ report' \ Warnings = {"firmware_suffix_metadata_invalid"}
             /\ ~Blocking(report) => ~WindowOpen(image.suffix, now'))
  BY <1>1, <1>2
<1> QED
  BY <1>3, FullInvariant, PTL DEF PressFlashes
===============================================================================

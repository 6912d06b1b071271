----------------------------- MODULE ConsoleProofs -----------------------------
(***************************************************************************)
(* What Console promises, for any number of screens and worker threads.    *)
(***************************************************************************)
EXTENDS Console, SequenceTheorems, TLAPS

(***************************************************************************)
(* A stack of screens: the port list at the bottom and nowhere else, every *)
(* other screen with a name of its own, a progress screen on the firmware  *)
(* screen that started it, that one on a dashboard, and no dashboard that  *)
(* is covered polls.                                                       *)
(***************************************************************************)
Tower(screens) ==
  /\ screens \in Seq(Screens) /\ Len(screens) \in Nat \ {0}
  /\ screens[1] = Port
  /\ \A i \in 2 .. Len(screens) :
       /\ screens[i].kind \in {"dashboard", "firmware", "progress"}
       /\ screens[i].kind = "firmware" => screens[i - 1].kind = "dashboard"
       /\ screens[i].kind = "progress" => screens[i - 1].kind = "firmware"
       /\ screens[i].kind = "dashboard" /\ i # Len(screens) => ~screens[i].polling
  /\ \A i, j \in 2 .. Len(screens) : screens[i].id = screens[j].id => i = j

Active(t) == thread[t].op # "none"

ThreadInv ==
  /\ thread \in [Threads -> CallStates]
  /\ \A t \in Threads :
       thread[t].op = "flash" /\ thread[t].phase = "reporting"
         => thread[t].outcome \in {"stopped", "recovery", "succeeded"}
  /\ connected \in BOOLEAN /\ approved \in BOOLEAN /\ exited \in BOOLEAN

(* A progress screen without a result.                                     *)
Open(s) == s.kind = "progress" /\ s.result = "none"

(* A flash for every open progress screen, and one screen for each flash.  *)
WatchInv ==
  /\ \A t \in Threads : thread[t].op = "flash" =>
       \E i \in 2 .. Len(stack) : Open(stack[i]) /\ stack[i].id = thread[t].screen
  /\ \A i \in 2 .. Len(stack) : Open(stack[i]) =>
       \E t \in Threads : thread[t].op = "flash" /\ stack[i].id = thread[t].screen
  /\ \A t, u \in Threads :
       thread[t].op = "flash" /\ thread[u].op = "flash"
         /\ thread[t].screen = thread[u].screen => t = u

(* A poll for every dashboard that awaits one; those of a dashboard that   *)
(* was left keep its name from being used again.                           *)
PollInv ==
  /\ \A t \in Threads, i \in 2 .. Len(stack) :
       thread[t].op = "poll" /\ stack[i].id = thread[t].screen
         => stack[i].kind = "dashboard" /\ stack[i].inflight
  /\ \A i \in 2 .. Len(stack) : stack[i].kind = "dashboard" /\ stack[i].inflight =>
       \E t \in Threads : thread[t].op = "poll" /\ stack[i].id = thread[t].screen
  /\ \A t, u \in Threads :
       thread[t].op = "poll" /\ thread[u].op = "poll"
         /\ thread[t].screen = thread[u].screen => t = u

(* The name of a dashboard to come is nobody else's.                       *)
ConnectInv ==
  \A t \in Threads : thread[t].op = "connect" =>
    /\ \A i \in 2 .. Len(stack) : stack[i].id # thread[t].screen
    /\ \A u \in Threads \ {t} : Active(u) => thread[u].screen # thread[t].screen

CallInv == WatchInv /\ PollInv /\ ConnectInv

ConsoleInv == Tower(stack) /\ ThreadInv /\ CallInv
-------------------------------------------------------------------------------
(* Screens.                                                                *)

(* The same screen, and apart from whether it polls also in the same state *)
(* as far as its worker is concerned.                                      *)
Same(s, r)  == r.kind = s.kind /\ (s.kind # "port" => r.id = s.id)
Alike(s, r) ==
  /\ Same(s, r)
  /\ s.kind = "dashboard" => r.inflight = s.inflight
  /\ s.kind = "progress" => r.result = s.result

(* A screen is of its kind.                                                *)
LEMMA KindOfScreen ==
  ASSUME NEW s \in Screens
  PROVE  /\ s.kind \in {"port", "dashboard", "firmware", "progress"}
         /\ s.kind = "port" <=> s = Port
         /\ s.kind = "dashboard" =>
              s \in [kind : {"dashboard"}, id : Ids, polling : BOOLEAN, inflight : BOOLEAN]
         /\ s.kind = "firmware" =>
              s \in [kind : {"firmware"}, id : Ids,
                     report : {"none", "allowed", "confirm", "blocked"}]
         /\ s.kind = "progress" =>
              s \in [kind : {"progress"}, id : Ids,
                     result : {"none", "stopped", "recovery", "succeeded"},
                     shown : {"transfer", "active", "result"}]
         /\ s.kind # "port" => s.id \in Ids
BY DEF Screens, Port

(* Polling is paused and resumed, and nothing else changes.                *)
LEMMA PollingScreen ==
  ASSUME NEW s \in Screens, NEW on \in BOOLEAN
  PROVE  /\ Polling(s, on) \in Screens /\ Alike(s, Polling(s, on))
         /\ s.kind = "dashboard" => Polling(s, on).polling = on
<1>1. CASE s.kind = "dashboard"
  <2>1. s \in [kind : {"dashboard"}, id : Ids, polling : BOOLEAN, inflight : BOOLEAN]
    BY <1>1, KindOfScreen
  <2> DEFINE r == [s EXCEPT !.polling = on]
  <2>2. /\ r \in [kind : {"dashboard"}, id : Ids, polling : BOOLEAN, inflight : BOOLEAN]
        /\ r.kind = s.kind /\ r.id = s.id /\ r.inflight = s.inflight /\ r.polling = on
    BY <2>1
  <2>3. Polling(s, on) = r
    BY <1>1 DEF Polling
  <2> HIDE DEF r
  <2> QED
    BY <1>1, <2>2, <2>3 DEF Screens, Alike, Same
<1>2. CASE s.kind # "dashboard"
  BY <1>2 DEF Polling, Alike, Same
<1> QED
  BY <1>1, <1>2

(* What a report changes.                                                  *)
LEMMA ReportedScreen ==
  ASSUME NEW s \in Screens
  PROVE  /\ s.kind = "firmware" =>
              \A report \in {"none", "allowed", "confirm", "blocked"} :
                /\ [s EXCEPT !.report = report] \in Screens
                /\ Alike(s, [s EXCEPT !.report = report])
         /\ s.kind = "progress" =>
              /\ [s EXCEPT !.shown = "active"] \in Screens
              /\ Alike(s, [s EXCEPT !.shown = "active"])
              /\ \A outcome \in {"stopped", "recovery", "succeeded"} :
                   /\ FlashReported(s, outcome) \in Screens
                   /\ FlashReported(s, outcome).kind = "progress"
                   /\ FlashReported(s, outcome).id = s.id
                   /\ FlashReported(s, outcome).result = outcome
         /\ s.kind = "dashboard" => \A inflight \in BOOLEAN :
              /\ [s EXCEPT !.inflight = inflight] \in Screens
              /\ [s EXCEPT !.inflight = inflight].kind = "dashboard"
              /\ [s EXCEPT !.inflight = inflight].id = s.id
              /\ [s EXCEPT !.inflight = inflight].polling = s.polling
              /\ [s EXCEPT !.inflight = inflight].inflight = inflight
<1>1. ASSUME s.kind = "firmware", NEW report \in {"none", "allowed", "confirm", "blocked"}
      PROVE  /\ [s EXCEPT !.report = report] \in Screens
             /\ Alike(s, [s EXCEPT !.report = report])
  <2> DEFINE r == [s EXCEPT !.report = report]
  <2>1. s \in [kind : {"firmware"}, id : Ids,
               report : {"none", "allowed", "confirm", "blocked"}]
    BY <1>1, KindOfScreen
  <2>2. /\ r \in [kind : {"firmware"}, id : Ids,
                  report : {"none", "allowed", "confirm", "blocked"}]
        /\ r.kind = s.kind /\ r.id = s.id
    BY <2>1
  <2> HIDE DEF r
  <2>3. r \in Screens /\ Alike(s, r)
    BY <1>1, <2>2 DEF Screens, Alike, Same
  <2> QED
    BY <2>3 DEF r
<1>2. ASSUME s.kind = "progress"
      PROVE  /\ [s EXCEPT !.shown = "active"] \in Screens
             /\ Alike(s, [s EXCEPT !.shown = "active"])
  <2> DEFINE r == [s EXCEPT !.shown = "active"]
  <2>1. s \in [kind : {"progress"}, id : Ids,
               result : {"none", "stopped", "recovery", "succeeded"},
               shown : {"transfer", "active", "result"}]
    BY <1>2, KindOfScreen
  <2>2. /\ r \in [kind : {"progress"}, id : Ids,
                  result : {"none", "stopped", "recovery", "succeeded"},
                  shown : {"transfer", "active", "result"}]
        /\ r.kind = s.kind /\ r.id = s.id /\ r.result = s.result
    BY <2>1
  <2> HIDE DEF r
  <2>3. r \in Screens /\ Alike(s, r)
    BY <1>2, <2>2 DEF Screens, Alike, Same
  <2> QED
    BY <2>3 DEF r
<1>3. ASSUME s.kind = "progress", NEW outcome \in {"stopped", "recovery", "succeeded"}
      PROVE  /\ FlashReported(s, outcome) \in Screens
             /\ FlashReported(s, outcome).kind = "progress"
             /\ FlashReported(s, outcome).id = s.id
             /\ FlashReported(s, outcome).result = outcome
  <2>1. s \in [kind : {"progress"}, id : Ids,
               result : {"none", "stopped", "recovery", "succeeded"},
               shown : {"transfer", "active", "result"}]
    BY <1>3, KindOfScreen
  <2> DEFINE r == [s EXCEPT !.result = outcome, !.shown = "result"]
  <2>2. /\ r \in [kind : {"progress"}, id : Ids,
                  result : {"none", "stopped", "recovery", "succeeded"},
                  shown : {"transfer", "active", "result"}]
        /\ r.kind = "progress" /\ r.id = s.id /\ r.result = outcome
    BY <2>1
  <2>3. FlashReported(s, outcome) = r
    BY DEF FlashReported
  <2> HIDE DEF r
  <2> QED
    BY <2>2, <2>3 DEF Screens
<1>4. ASSUME s.kind = "dashboard", NEW inflight \in BOOLEAN
      PROVE  /\ [s EXCEPT !.inflight = inflight] \in Screens
             /\ [s EXCEPT !.inflight = inflight].kind = "dashboard"
             /\ [s EXCEPT !.inflight = inflight].id = s.id
             /\ [s EXCEPT !.inflight = inflight].polling = s.polling
             /\ [s EXCEPT !.inflight = inflight].inflight = inflight
  <2>1. s \in [kind : {"dashboard"}, id : Ids, polling : BOOLEAN, inflight : BOOLEAN]
    BY <1>4, KindOfScreen
  <2>2. [s EXCEPT !.inflight = inflight] =
          [kind |-> "dashboard", id |-> s.id, polling |-> s.polling, inflight |-> inflight]
    BY <2>1
  <2> QED
    BY <2>1, <2>2 DEF Screens
<1> QED
  BY <1>1, <1>2, <1>3, <1>4
-------------------------------------------------------------------------------
(* Stacks.                                                                 *)

LEMMA SetTopShape ==
  ASSUME NEW screens \in Seq(Screens), Len(screens) \in Nat \ {0}, NEW s \in Screens
  PROVE  /\ SetTop(s, screens) \in Seq(Screens)
         /\ Len(SetTop(s, screens)) = Len(screens)
         /\ SetTop(s, screens)[Len(screens)] = s
         /\ \A i \in 1 .. Len(screens) - 1 : SetTop(s, screens)[i] = screens[i]
<1> DEFINE n == Len(screens)
<1>1. n \in Nat /\ n >= 1
  OBVIOUS
<1>2. \A i \in 1 .. n - 1 : screens[i] \in Screens
  BY <1>1, ElementOfSeq
<1>3. /\ Front(screens) \in Seq(Screens) /\ Len(Front(screens)) = n - 1
      /\ \A i \in 1 .. n - 1 : Front(screens)[i] = screens[i]
  <2>1. /\ SubSeq(screens, 1, n - 1) \in Seq(Screens)
        /\ Len(SubSeq(screens, 1, n - 1)) = IF 1 <= n - 1 THEN (n - 1) - 1 + 1 ELSE 0
        /\ \A i \in 1 .. (n - 1) - 1 + 1 : SubSeq(screens, 1, n - 1)[i] = screens[1 + i - 1]
    BY <1>1, <1>2, SubSeqProperties
  <2>2. Front(screens) = SubSeq(screens, 1, n - 1)
    BY DEF Front
  <2>3. n = 1 => n - 1 = 0
    OBVIOUS
  <2> HIDE DEF n
  <2> QED
    BY <1>1, <2>1, <2>2, <2>3
<1>4. SetTop(s, screens) = Append(Front(screens), s)
  BY DEF SetTop
<1> QED
  BY <1>1, <1>3, <1>4, AppendProperties

LEMMA PushShape ==
  ASSUME NEW screens \in Seq(Screens), Len(screens) \in Nat \ {0}, NEW s \in Screens
  PROVE  /\ Push(s, screens) \in Seq(Screens)
         /\ Len(Push(s, screens)) = Len(screens) + 1
         /\ Push(s, screens)[Len(screens) + 1] = s
         /\ Push(s, screens)[Len(screens)] = Suspended(screens[Len(screens)])
         /\ \A i \in 1 .. Len(screens) - 1 : Push(s, screens)[i] = screens[i]
<1>1. Last(screens) = screens[Len(screens)] /\ screens[Len(screens)] \in Screens
  BY ElementOfSeq DEF Last
<1> DEFINE r     == Suspended(screens[Len(screens)])
           under == SetTop(r, screens)
<1>2. r \in Screens
  BY <1>1, PollingScreen DEF Suspended
<1>3. Push(s, screens) = Append(under, s)
  BY <1>1 DEF Push
<1> HIDE DEF r
<1>4. /\ under \in Seq(Screens) /\ Len(under) = Len(screens) /\ under[Len(screens)] = r
      /\ \A i \in 1 .. Len(screens) - 1 : under[i] = screens[i]
  BY <1>2, SetTopShape
<1> HIDE DEF under
<1> QED
  BY <1>3, <1>4, AppendProperties DEF r

LEMMA PopShape ==
  ASSUME NEW screens \in Seq(Screens), Len(screens) \in Nat, Len(screens) >= 2
  PROVE  /\ Pop(screens) \in Seq(Screens)
         /\ Len(Pop(screens)) = Len(screens) - 1
         /\ Pop(screens)[Len(screens) - 1] = Resumed(screens[Len(screens) - 1])
         /\ \A i \in 1 .. Len(screens) - 2 : Pop(screens)[i] = screens[i]
<1>1. PICK n \in Nat \ {0} : n = Len(screens) - 1
  OBVIOUS
<1> DEFINE below == Front(screens)
<1>2. /\ below \in Seq(Screens) /\ Len(below) = n
      /\ \A i \in 1 .. n : below[i] = screens[i]
  <2>1. \A i \in 1 .. n : screens[i] \in Screens
    BY <1>1, ElementOfSeq
  <2>2. /\ SubSeq(screens, 1, n) \in Seq(Screens)
        /\ Len(SubSeq(screens, 1, n)) = IF 1 <= n THEN n - 1 + 1 ELSE 0
        /\ \A i \in 1 .. n - 1 + 1 : SubSeq(screens, 1, n)[i] = screens[1 + i - 1]
    BY <2>1, SubSeqProperties
  <2>3. below = SubSeq(screens, 1, n)
    BY <1>1 DEF Front
  <2> HIDE DEF below
  <2> QED
    BY <2>2, <2>3
<1> DEFINE r == Resumed(screens[n])
<1>3. Last(below) = screens[n] /\ screens[n] \in Screens
  BY <1>1, <1>2, ElementOfSeq DEF Last
<1>4. r \in Screens
  BY <1>3, PollingScreen DEF Resumed
<1>5. Pop(screens) = SetTop(r, below)
  BY <1>3 DEF Pop
<1> HIDE DEF below, r
<1>6. /\ SetTop(r, below) \in Seq(Screens) /\ Len(SetTop(r, below)) = Len(below)
      /\ SetTop(r, below)[Len(below)] = r
      /\ \A i \in 1 .. Len(below) - 1 : SetTop(r, below)[i] = below[i]
  <2>1. below \in Seq(Screens) /\ Len(below) \in Nat \ {0}
    BY <1>2
  <2> QED
    BY <1>4, <2>1, SetTopShape
<1> QED
  BY <1>1, <1>2, <1>5, <1>6 DEF r

(* What keeps names and kinds keeps a tower, if nothing polls that is      *)
(* covered.                                                                *)
LEMMA StillTower ==
  ASSUME NEW old, Tower(old), NEW new \in Seq(Screens),
         Len(new) \in Nat \ {0}, Len(new) <= Len(old),
         \A i \in 1 .. Len(new) : Same(old[i], new[i]),
         \A i \in 2 .. Len(new) - 1 : new[i].kind = "dashboard" => ~new[i].polling
  PROVE  Tower(new)
<1>1. new[1] = Port
  <2>1. old[1].kind = "port" /\ 1 \in 1 .. Len(new)
    BY DEF Tower, Port
  <2>2. new[1] \in Screens /\ new[1].kind = "port"
    BY <2>1, ElementOfSeq DEF Same
  <2> QED
    BY <2>2, KindOfScreen
<1>2. ASSUME NEW i \in 2 .. Len(new)
      PROVE  /\ i \in 2 .. Len(old) /\ new[i].kind = old[i].kind /\ new[i].id = old[i].id
             /\ new[i - 1].kind = old[i - 1].kind
             /\ new[i].kind \in {"dashboard", "firmware", "progress"}
  <2>1. i \in 2 .. Len(old) /\ i \in 1 .. Len(new) /\ i - 1 \in 1 .. Len(new)
    BY DEF Tower
  <2>2. old[i].kind \in {"dashboard", "firmware", "progress"}
    BY <2>1 DEF Tower
  <2> QED
    BY <2>1, <2>2 DEF Same
<1>3. ASSUME NEW i \in 2 .. Len(new)
      PROVE  /\ new[i].kind = "firmware" => new[i - 1].kind = "dashboard"
             /\ new[i].kind = "progress" => new[i - 1].kind = "firmware"
             /\ new[i].kind = "dashboard" /\ i # Len(new) => ~new[i].polling
  <2>1. i # Len(new) => i \in 2 .. Len(new) - 1
    OBVIOUS
  <2> QED
    BY <1>2, <2>1 DEF Tower
<1>4. ASSUME NEW i \in 2 .. Len(new), NEW j \in 2 .. Len(new), new[i].id = new[j].id
      PROVE  i = j
  BY <1>2, <1>4 DEF Tower
<1> QED
  BY <1>1, <1>2, <1>3, <1>4 DEF Tower

LEMMA SetTopTower ==
  ASSUME NEW screens, Tower(screens), NEW s \in Screens, Same(Last(screens), s)
  PROVE  /\ Tower(SetTop(s, screens))
         /\ Len(SetTop(s, screens)) = Len(screens)
         /\ SetTop(s, screens)[Len(screens)] = s
         /\ \A i \in 1 .. Len(screens) - 1 : SetTop(s, screens)[i] = screens[i]
<1> DEFINE new == SetTop(s, screens)
<1>1. /\ new \in Seq(Screens) /\ Len(new) = Len(screens) /\ new[Len(screens)] = s
      /\ \A i \in 1 .. Len(screens) - 1 : new[i] = screens[i]
  <2>1. screens \in Seq(Screens) /\ Len(screens) \in Nat \ {0}
    BY DEF Tower
  <2> QED
    BY <2>1, SetTopShape
<1> HIDE DEF new
<1>2. Len(screens) \in Nat \ {0}
  BY DEF Tower
<1>3. \A i \in 1 .. Len(new) : Same(screens[i], new[i])
  BY <1>1, <1>2 DEF Same, Last
<1>4. \A i \in 2 .. Len(new) - 1 : new[i].kind = "dashboard" => ~new[i].polling
  BY <1>1, <1>2 DEF Tower
<1>5. Tower(new)
  BY <1>1, <1>2, <1>3, <1>4, StillTower
<1> QED
  BY <1>1, <1>5 DEF new

LEMMA PopTower ==
  ASSUME NEW screens, Tower(screens), Len(screens) >= 2
  PROVE  /\ Tower(Pop(screens))
         /\ Len(Pop(screens)) = Len(screens) - 1
         /\ \A i \in 1 .. Len(screens) - 1 : Alike(screens[i], Pop(screens)[i])
<1> DEFINE new == Pop(screens)
<1>1. /\ new \in Seq(Screens) /\ Len(new) = Len(screens) - 1
      /\ new[Len(screens) - 1] = Resumed(screens[Len(screens) - 1])
      /\ \A i \in 1 .. Len(screens) - 2 : new[i] = screens[i]
  <2>1. screens \in Seq(Screens) /\ Len(screens) \in Nat
    BY DEF Tower
  <2> QED
    BY <2>1, PopShape
<1> HIDE DEF new
<1>2. Len(screens) \in Nat /\ Len(screens) >= 2
  BY DEF Tower
<1>3. Alike(screens[Len(screens) - 1], new[Len(screens) - 1])
  <2>1. screens[Len(screens) - 1] \in Screens
    BY <1>2, ElementOfSeq DEF Tower
  <2> QED
    BY <1>1, <2>1, PollingScreen DEF Resumed
<1>4. \A i \in 1 .. Len(screens) - 1 : Alike(screens[i], new[i])
  <2>1. ASSUME NEW i \in 1 .. Len(screens) - 2
        PROVE  Alike(screens[i], new[i])
    BY <1>1, <2>1 DEF Alike, Same
  <2> QED
    BY <1>2, <1>3, <2>1
<1>5. \A i \in 2 .. Len(new) - 1 : new[i].kind = "dashboard" => ~new[i].polling
  BY <1>1, <1>2 DEF Tower
<1>6. \A i \in 1 .. Len(new) : Same(screens[i], new[i])
  BY <1>1, <1>4 DEF Alike
<1>7. Tower(new)
  <2>1. Len(new) \in Nat \ {0} /\ Len(new) <= Len(screens)
    BY <1>1, <1>2
  <2> QED
    BY <1>1, <1>5, <1>6, <2>1, StillTower
<1> QED
  BY <1>1, <1>4, <1>7 DEF new

LEMMA PushTower ==
  ASSUME NEW screens, Tower(screens), NEW s \in Screens, s.kind # "port",
         s.kind = "firmware" => Last(screens).kind = "dashboard",
         s.kind = "progress" => Last(screens).kind = "firmware",
         \A i \in 2 .. Len(screens) : screens[i].id # s.id
  PROVE  /\ Tower(Push(s, screens))
         /\ Len(Push(s, screens)) = Len(screens) + 1
         /\ Push(s, screens)[Len(screens) + 1] = s
         /\ \A i \in 1 .. Len(screens) : Alike(screens[i], Push(s, screens)[i])
<1> DEFINE new == Push(s, screens)
<1>1. PICK n \in Nat \ {0} : n = Len(screens)
  BY DEF Tower
<1>2. /\ new \in Seq(Screens) /\ Len(new) = n + 1
      /\ new[n + 1] = s /\ new[n] = Suspended(screens[n])
      /\ \A i \in 1 .. n - 1 : new[i] = screens[i]
  <2>1. screens \in Seq(Screens)
    BY DEF Tower
  <2> QED
    BY <1>1, <2>1, PushShape
<1> HIDE DEF new
<1>3. screens[n] \in Screens
  BY <1>1, ElementOfSeq DEF Tower
<1>4. Alike(screens[n], new[n]) /\ (new[n].kind = "dashboard" => ~new[n].polling)
  <2>1. new[n] = Polling(screens[n], FALSE) /\ FALSE \in BOOLEAN
    BY <1>2 DEF Suspended
  <2>2. /\ Alike(screens[n], new[n])
        /\ screens[n].kind = "dashboard" => new[n].polling = FALSE
    BY <1>3, <2>1, PollingScreen
  <2> QED
    BY <2>2 DEF Alike, Same
<1>5. \A i \in 1 .. n : Alike(screens[i], new[i])
  <2>1. ASSUME NEW i \in 1 .. n - 1
        PROVE  Alike(screens[i], new[i])
    BY <1>2, <2>1 DEF Alike, Same
  <2> QED
    BY <1>4, <2>1
<1>6. new[1] = Port
  <2>1. screens[1] = Port /\ (1 = n \/ 1 \in 1 .. n - 1)
    BY DEF Tower
  <2>2. Suspended(Port) = Port
    BY DEF Suspended, Polling, Port
  <2> QED
    BY <1>2, <2>1, <2>2
<1>7. ASSUME NEW i \in 2 .. n
      PROVE  /\ new[i].kind \in {"dashboard", "firmware", "progress"}
             /\ new[i].kind = screens[i].kind /\ new[i - 1].kind = screens[i - 1].kind
             /\ new[i].id = screens[i].id
             /\ new[i].kind = "dashboard" => ~new[i].polling
  <2>1. Same(screens[i], new[i]) /\ Same(screens[i - 1], new[i - 1])
    BY <1>5 DEF Alike
  <2>2. screens[i].kind \in {"dashboard", "firmware", "progress"}
    BY <1>1 DEF Tower
  <2>3. new[i].kind = "dashboard" => ~new[i].polling
    <3>1. CASE i = n
      BY <1>4, <3>1
    <3>2. CASE i # n
      BY <1>1, <1>2, <3>2 DEF Tower
    <3> QED
      BY <3>1, <3>2
  <2> QED
    BY <2>1, <2>2, <2>3 DEF Same
<1>8. ASSUME NEW i \in 2 .. n + 1
      PROVE  /\ new[i].kind \in {"dashboard", "firmware", "progress"}
             /\ new[i].kind = "firmware" => new[i - 1].kind = "dashboard"
             /\ new[i].kind = "progress" => new[i - 1].kind = "firmware"
             /\ new[i].kind = "dashboard" /\ i # n + 1 => ~new[i].polling
  <2>1. CASE i \in 2 .. n
    BY <1>1, <1>7, <2>1 DEF Tower
  <2>2. CASE i = n + 1
    <3>1. s.kind \in {"dashboard", "firmware", "progress"}
      BY KindOfScreen
    <3>2. new[n].kind = Last(screens).kind
      BY <1>1, <1>4 DEF Alike, Same, Last
    <3> QED
      BY <1>2, <2>2, <3>1, <3>2
  <2> QED
    BY <2>1, <2>2
<1>9. ASSUME NEW i \in 2 .. n + 1, NEW j \in 2 .. n + 1, new[i].id = new[j].id
      PROVE  i = j
  <2>1. CASE i \in 2 .. n /\ j \in 2 .. n
    BY <1>1, <1>7, <1>9, <2>1 DEF Tower
  <2>2. CASE i = n + 1 /\ j \in 2 .. n
    BY <1>1, <1>2, <1>7, <1>9, <2>2
  <2>3. CASE i \in 2 .. n /\ j = n + 1
    BY <1>1, <1>2, <1>7, <1>9, <2>3
  <2> QED
    BY <2>1, <2>2, <2>3
<1>10. Tower(new)
  BY <1>2, <1>6, <1>8, <1>9 DEF Tower
<1> QED
  BY <1>1, <1>2, <1>5, <1>10 DEF new
-------------------------------------------------------------------------------
(* Calls.                                                                  *)

KeptCalls ==
  \A t \in Threads : /\ thread'[t].op = thread[t].op
                     /\ Active(t) => thread'[t].screen = thread[t].screen

(* No worker waited for the screens that are gone.                         *)
KeptStack ==
  /\ Len(stack') \in Nat /\ Len(stack') <= Len(stack)
  /\ \A i \in 2 .. Len(stack') : Alike(stack[i], stack'[i])
  /\ \A i \in 2 .. Len(stack) : i > Len(stack') => ~Open(stack[i])

Pushed(s) ==
  /\ Len(stack') = Len(stack) + 1
  /\ \A i \in 2 .. Len(stack) : Alike(stack[i], stack'[i])
  /\ stack'[Len(stack) + 1] = s

(* An existing screen keeps its kind and name, and the rest too.           *)
LEMMA AlikeStack ==
  ASSUME Tower(stack), NEW i \in 2 .. Len(stack), Alike(stack[i], stack'[i])
  PROVE  /\ stack'[i].kind = stack[i].kind /\ stack'[i].id = stack[i].id
         /\ Open(stack'[i]) <=> Open(stack[i])
         /\ stack[i].kind = "dashboard" => stack'[i].inflight = stack[i].inflight
         /\ stack'[i].kind = "dashboard" /\ stack'[i].inflight <=>
              stack[i].kind = "dashboard" /\ stack[i].inflight
<1>1. stack[i].kind # "port"
  BY DEF Tower
<1> QED
  BY <1>1 DEF Alike, Same, Open

LEMMA KeptCallInv ==
  ASSUME Tower(stack), CallInv, KeptStack, KeptCalls
  PROVE  CallInv'
<1>1. ASSUME NEW i \in 2 .. Len(stack')
      PROVE  /\ i \in 2 .. Len(stack)
             /\ stack'[i].kind = stack[i].kind /\ stack'[i].id = stack[i].id
             /\ Open(stack'[i]) <=> Open(stack[i])
             /\ stack[i].kind = "dashboard" => stack'[i].inflight = stack[i].inflight
             /\ stack'[i].kind = "dashboard" /\ stack'[i].inflight <=>
                  stack[i].kind = "dashboard" /\ stack[i].inflight
  <2>1. i \in 2 .. Len(stack) /\ Alike(stack[i], stack'[i])
    BY DEF KeptStack, Tower
  <2> QED
    BY <2>1, AlikeStack
<1>2. ASSUME NEW i \in 2 .. Len(stack), Open(stack[i])
      PROVE  i \in 2 .. Len(stack') /\ Open(stack'[i]) /\ stack'[i].id = stack[i].id
  <2>1. i \in 2 .. Len(stack')
    BY <1>2 DEF KeptStack, Tower
  <2> QED
    BY <1>1, <1>2, <2>1
<1>3. ASSUME NEW t \in Threads, NEW op \in {"connect", "poll", "flash"}
      PROVE  /\ thread'[t].op = op <=> thread[t].op = op
             /\ thread[t].op = op => thread'[t].screen = thread[t].screen
  BY DEF KeptCalls, Active
<1>4. WatchInv'
  <2>1. ASSUME NEW t \in Threads, thread'[t].op = "flash"
        PROVE  \E i \in 2 .. Len(stack') :
                 Open(stack'[i]) /\ stack'[i].id = thread'[t].screen
    <3>1. thread[t].op = "flash" /\ thread'[t].screen = thread[t].screen
      BY <1>3, <2>1
    <3>2. PICK i \in 2 .. Len(stack) : Open(stack[i]) /\ stack[i].id = thread[t].screen
      BY <3>1 DEF CallInv, WatchInv
    <3> QED
      BY <1>2, <3>1, <3>2
  <2>2. ASSUME NEW i \in 2 .. Len(stack'), Open(stack'[i])
        PROVE  \E t \in Threads : thread'[t].op = "flash" /\ stack'[i].id = thread'[t].screen
    <3>1. PICK t \in Threads : thread[t].op = "flash" /\ stack[i].id = thread[t].screen
      BY <1>1, <2>2 DEF CallInv, WatchInv
    <3> QED
      BY <1>1, <1>3, <3>1
  <2>3. ASSUME NEW t \in Threads, NEW u \in Threads,
               thread'[t].op = "flash", thread'[u].op = "flash",
               thread'[t].screen = thread'[u].screen
        PROVE  t = u
    BY <1>3, <2>3 DEF CallInv, WatchInv
  <2> QED
    BY <2>1, <2>2, <2>3 DEF WatchInv
<1>5. PollInv'
  <2>1. ASSUME NEW t \in Threads, NEW i \in 2 .. Len(stack'), thread'[t].op = "poll",
               stack'[i].id = thread'[t].screen
        PROVE  stack'[i].kind = "dashboard" /\ stack'[i].inflight
    <3>1. stack[i].kind = "dashboard" /\ stack[i].inflight
      BY <1>1, <1>3, <2>1 DEF CallInv, PollInv
    <3> QED
      BY <1>1, <3>1
  <2>2. ASSUME NEW i \in 2 .. Len(stack'), stack'[i].kind = "dashboard", stack'[i].inflight
        PROVE  \E t \in Threads : thread'[t].op = "poll" /\ stack'[i].id = thread'[t].screen
    <3>1. PICK t \in Threads : thread[t].op = "poll" /\ stack[i].id = thread[t].screen
      BY <1>1, <2>2 DEF CallInv, PollInv
    <3> QED
      BY <1>1, <1>3, <3>1
  <2>3. ASSUME NEW t \in Threads, NEW u \in Threads,
               thread'[t].op = "poll", thread'[u].op = "poll",
               thread'[t].screen = thread'[u].screen
        PROVE  t = u
    BY <1>3, <2>3 DEF CallInv, PollInv
  <2> QED
    BY <2>1, <2>2, <2>3 DEF PollInv
<1>6. ConnectInv'
  <2> SUFFICES ASSUME NEW t \in Threads, thread'[t].op = "connect"
               PROVE  /\ \A i \in 2 .. Len(stack') : stack'[i].id # thread'[t].screen
                      /\ \A u \in Threads \ {t} :
                           thread'[u].op # "none" => thread'[u].screen # thread'[t].screen
    BY DEF ConnectInv, Active
  <2>1. /\ \A i \in 2 .. Len(stack) : stack[i].id # thread[t].screen
        /\ \A u \in Threads \ {t} :
             thread[u].op # "none" => thread[u].screen # thread[t].screen
        /\ thread'[t].screen = thread[t].screen
    BY <1>3 DEF CallInv, ConnectInv, Active
  <2>2. \A u \in Threads : /\ thread'[u].op = thread[u].op
                           /\ thread[u].op # "none" => thread'[u].screen = thread[u].screen
    BY DEF KeptCalls, Active
  <2> QED
    BY <1>1, <2>1, <2>2
<1> QED
  BY <1>4, <1>5, <1>6 DEF CallInv

(* Idle is no call.                                                        *)
LEMMA IdleCall ==
  ASSUME ThreadInv, NEW t \in Threads
  PROVE  thread[t] = Idle <=> thread[t].op = "none"
BY DEF ThreadInv, CallStates, Idle

LEMMA Started ==
  ASSUME ThreadInv, NEW t \in Threads, thread[t] = Idle,
         NEW op \in {"connect", "poll", "flash"}, NEW id \in Ids,
         thread' = [thread EXCEPT ![t] = Call(op, id)],
         UNCHANGED exited, connected' \in BOOLEAN, approved' \in BOOLEAN
  PROVE  /\ ThreadInv'
         /\ thread[t].op = "none"
         /\ thread'[t].op = op /\ thread'[t].screen = id
         /\ \A u \in Threads \ {t} : thread'[u] = thread[u]
<1>1. Call(op, id) \in CallStates
  BY DEF Call, CallStates
<1>2. /\ Call(op, id).op = op /\ Call(op, id).screen = id
      /\ Call(op, id).phase = "waiting"
  BY DEF Call
<1>3. /\ thread' \in [Threads -> CallStates] /\ thread'[t] = Call(op, id)
      /\ \A u \in Threads \ {t} : thread'[u] = thread[u]
  BY <1>1 DEF ThreadInv
<1>4. ASSUME NEW u \in Threads, thread'[u].op = "flash", thread'[u].phase = "reporting"
      PROVE  thread'[u].outcome \in {"stopped", "recovery", "succeeded"}
  BY <1>2, <1>3, <1>4 DEF ThreadInv
<1> QED
  BY <1>2, <1>3, <1>4 DEF ThreadInv, Idle

(* A call goes on.                                                         *)
LEMMA Moved ==
  ASSUME ThreadInv, NEW t \in Threads, NEW c \in CallStates,
         c.op = thread[t].op, c.op # "none" => c.screen = thread[t].screen,
         c.op = "flash" /\ c.phase = "reporting"
           => c.outcome \in {"stopped", "recovery", "succeeded"},
         thread' = [thread EXCEPT ![t] = c],
         UNCHANGED exited, connected' \in BOOLEAN, approved' \in BOOLEAN
  PROVE  ThreadInv' /\ KeptCalls
<1>1. /\ thread' \in [Threads -> CallStates] /\ thread'[t] = c
      /\ \A u \in Threads \ {t} : thread'[u] = thread[u]
  BY DEF ThreadInv
<1>2. ASSUME NEW u \in Threads, thread'[u].op = "flash", thread'[u].phase = "reporting"
      PROVE  thread'[u].outcome \in {"stopped", "recovery", "succeeded"}
  BY <1>1, <1>2 DEF ThreadInv
<1>3. KeptCalls
  BY <1>1 DEF KeptCalls, Active
<1> QED
  BY <1>1, <1>2, <1>3 DEF ThreadInv

LEMMA MovedOn ==
  ASSUME ThreadInv, NEW t \in Threads, thread[t].op # "none",
         UNCHANGED exited, connected' \in BOOLEAN, approved' \in BOOLEAN,
         \/ Running(t)
         \/ \E outcome \in {"connected", "failed", "fresh", "changed",
                            "stopped", "recovery", "succeeded"} :
              /\ Reporting(t, outcome)
              /\ thread[t].op = "flash" => outcome \in {"stopped", "recovery", "succeeded"}
  PROVE  ThreadInv' /\ KeptCalls
<1>1. thread[t] \in [op : {"connect", "poll", "flash"}, screen : Ids,
                     phase : {"waiting", "running", "reporting"},
                     outcome : {"none", "connected", "failed", "fresh", "changed",
                                "stopped", "recovery", "succeeded"}]
  BY DEF ThreadInv, CallStates, Idle
<1>2. CASE Running(t)
  <2> DEFINE c == [thread[t] EXCEPT !.phase = "running"]
  <2>1. /\ c \in CallStates /\ c.op = thread[t].op /\ c.screen = thread[t].screen
        /\ c.phase = "running"
    BY <1>1 DEF CallStates
  <2>2. thread' = [thread EXCEPT ![t] = c]
    BY <1>2 DEF Running
  <2> HIDE DEF c
  <2> QED
    BY <2>1, <2>2, Moved
<1>3. ASSUME NEW outcome \in {"connected", "failed", "fresh", "changed",
                              "stopped", "recovery", "succeeded"},
             Reporting(t, outcome),
             thread[t].op = "flash" => outcome \in {"stopped", "recovery", "succeeded"}
      PROVE  ThreadInv' /\ KeptCalls
  <2> DEFINE c == [thread[t] EXCEPT !.phase = "reporting", !.outcome = outcome]
  <2>1. /\ c \in CallStates /\ c.op = thread[t].op /\ c.screen = thread[t].screen
        /\ c.outcome = outcome
    BY <1>1 DEF CallStates
  <2>2. thread' = [thread EXCEPT ![t] = c]
    BY <1>3 DEF Reporting
  <2>3. c.op = "flash" => c.outcome \in {"stopped", "recovery", "succeeded"}
    BY <1>3, <2>1
  <2> HIDE DEF c
  <2> QED
    BY <2>1, <2>2, <2>3, Moved
<1> QED
  BY <1>2, <1>3

LEMMA Ready ==
  ASSUME ThreadInv, NEW t \in Threads, thread' = [thread EXCEPT ![t] = Idle],
         UNCHANGED <<session, exited>>
  PROVE  /\ ThreadInv' /\ thread'[t].op = "none"
         /\ \A u \in Threads \ {t} : thread'[u] = thread[u]
<1>1. Idle \in CallStates /\ Idle.op = "none"
  BY DEF Idle, CallStates
<1>2. /\ thread' \in [Threads -> CallStates] /\ thread'[t] = Idle
      /\ \A u \in Threads \ {t} : thread'[u] = thread[u]
  BY <1>1 DEF ThreadInv
<1>3. ASSUME NEW u \in Threads, thread'[u].op = "flash", thread'[u].phase = "reporting"
      PROVE  thread'[u].outcome \in {"stopped", "recovery", "succeeded"}
  BY <1>1, <1>2, <1>3 DEF ThreadInv
<1> QED
  BY <1>1, <1>2, <1>3 DEF ThreadInv, session
-------------------------------------------------------------------------------
(* The invariant holds at first, and every step keeps it.                  *)

LEMMA ConsoleInit == Init => ConsoleInv
<1> SUFFICES ASSUME Init PROVE ConsoleInv
  OBVIOUS
<1>1. /\ stack \in Seq(Screens) /\ Len(stack) = 1 /\ stack[1] = Port
  BY DEF Init, Screens
<1>2. \A i \in 2 .. Len(stack) : FALSE
  BY <1>1
<1>3. Tower(stack)
  BY <1>1, <1>2 DEF Tower
<1>4. thread \in [Threads -> CallStates] /\ \A t \in Threads : thread[t].op = "none"
  BY DEF Init, CallStates, Idle
<1>5. ThreadInv
  BY <1>4 DEF ThreadInv, Init
<1>6. CallInv
  BY <1>2, <1>4 DEF CallInv, WatchInv, PollInv, ConnectInv
<1> QED
  BY <1>3, <1>5, <1>6 DEF ConsoleInv

(* Nothing that the invariant speaks of changes.                           *)
LEMMA Unmoved ==
  ASSUME ConsoleInv, UNCHANGED <<stack, thread>>,
         connected' \in BOOLEAN, approved' \in BOOLEAN, exited' \in BOOLEAN
  PROVE  ConsoleInv'
<1>1. Tower(stack)' /\ ThreadInv'
  BY DEF ConsoleInv, Tower, ThreadInv
<1>2. WatchInv' /\ PollInv' /\ ConnectInv'
  BY DEF ConsoleInv, CallInv, WatchInv, PollInv, ConnectInv, Open, Active
<1> QED
  BY <1>1, <1>2 DEF ConsoleInv, CallInv

(* Nor do the calls, and screens are only covered or left that nobody      *)
(* reports to.                                                             *)
LEMMA ThreadsUnmoved ==
  ASSUME ThreadInv, UNCHANGED <<thread, exited>>,
         connected' \in BOOLEAN, approved' \in BOOLEAN
  PROVE  ThreadInv' /\ KeptCalls
BY DEF ThreadInv, KeptCalls

(* The screen on top.                                                      *)
LEMMA TopScreen ==
  ASSUME Tower(stack)
  PROVE  /\ Len(stack) \in Nat \ {0} /\ Top = stack[Len(stack)] /\ Top \in Screens
         /\ Top.kind # "port" => Len(stack) \in 2 .. Len(stack)
         /\ Top.kind = "port" => Len(stack) = 1
         /\ Last(stack) = Top
<1>1. Len(stack) \in Nat \ {0} /\ stack \in Seq(Screens) /\ stack[1] = Port
  BY DEF Tower
<1>2. Top = stack[Len(stack)] /\ Last(stack) = Top
  BY DEF Top, Last
<1>3. Top \in Screens
  BY <1>1, <1>2, ElementOfSeq
<1>4. Top.kind # "port" => Len(stack) \in 2 .. Len(stack)
  BY <1>1, <1>2 DEF Port
<1>5. Top.kind = "port" => Len(stack) = 1
  <2>1. PICK n \in Nat \ {0} : n = Len(stack)
    BY <1>1
  <2>2. n = 1 \/ n \in 2 .. Len(stack)
    BY <2>1
  <2> QED
    BY <1>2, <2>1, <2>2 DEF Tower
<1> QED
  BY <1>1, <1>2, <1>3, <1>4, <1>5

(* The screen on top shows something else.                                 *)
LEMMA TopChanged ==
  ASSUME ConsoleInv, NEW s \in Screens, Alike(Top, s), stack' = SetTop(s, stack),
         UNCHANGED <<thread, exited>>, connected' \in BOOLEAN, approved' \in BOOLEAN
  PROVE  ConsoleInv' /\ Len(stack') = Len(stack)
<1>1. Tower(stack) /\ ThreadInv /\ CallInv
  BY DEF ConsoleInv
<1>2. Len(stack) \in Nat \ {0} /\ Top = stack[Len(stack)] /\ Last(stack) = Top
  BY <1>1, TopScreen
<1>3. /\ Tower(stack') /\ Len(stack') = Len(stack) /\ stack'[Len(stack)] = s
      /\ \A i \in 1 .. Len(stack) - 1 : stack'[i] = stack[i]
  BY <1>1, <1>2, SetTopTower DEF Alike
<1>4. ASSUME NEW i \in 2 .. Len(stack) PROVE Alike(stack[i], stack'[i])
  <2>1. CASE i = Len(stack)
    BY <1>2, <1>3, <2>1
  <2>2. CASE i # Len(stack)
    <3>1. stack'[i] = stack[i]
      BY <1>2, <1>3, <2>2
    <3> QED
      BY <3>1 DEF Alike, Same
  <2> QED
    BY <2>1, <2>2
<1>5. KeptStack
  BY <1>2, <1>3, <1>4 DEF KeptStack
<1>6. ThreadInv' /\ KeptCalls
  BY <1>1, ThreadsUnmoved
<1>7. CallInv'
  BY <1>1, <1>5, <1>6, KeptCallInv
<1> QED
  BY <1>3, <1>6, <1>7 DEF ConsoleInv

LEMMA BackInv == ASSUME ConsoleInv, Back PROVE ConsoleInv'
<1>1. Tower(stack) /\ ThreadInv /\ CallInv
  BY DEF ConsoleInv
<1>2. /\ Len(stack) \in 2 .. Len(stack) /\ Len(stack) \in Nat
      /\ ~Open(stack[Len(stack)])
  BY <1>1, TopScreen DEF Back, At, Open
<1>3. /\ Tower(stack') /\ Len(stack') = Len(stack) - 1
      /\ \A i \in 1 .. Len(stack) - 1 : Alike(stack[i], stack'[i])
  BY <1>1, <1>2, PopTower DEF Back
<1>4. KeptStack
  BY <1>2, <1>3 DEF KeptStack
<1>5. ThreadInv' /\ KeptCalls
  BY <1>1, ThreadsUnmoved DEF Back, session, ThreadInv
<1>6. CallInv'
  BY <1>1, <1>4, <1>5, KeptCallInv
<1> QED
  BY <1>3, <1>5, <1>6 DEF ConsoleInv

LEMMA ReloadInv == ASSUME ConsoleInv, Reload PROVE ConsoleInv'
<1>1. Tower(stack) /\ ThreadInv
  BY DEF ConsoleInv
<1>2. Top \in Screens /\ Top.kind = "firmware"
  BY <1>1, TopScreen DEF Reload, At
<1> DEFINE s == [Top EXCEPT !.report = "none"]
<1>3. s \in Screens /\ Alike(Top, s)
  BY <1>2, ReportedScreen
<1>4. /\ stack' = SetTop(s, stack) /\ UNCHANGED <<thread, exited>>
      /\ connected' \in BOOLEAN /\ approved' \in BOOLEAN
  BY <1>1 DEF Reload, session, ThreadInv
<1> HIDE DEF s
<1> QED
  BY <1>3, <1>4, TopChanged

LEMMA InspectInv == ASSUME ConsoleInv, Inspect PROVE ConsoleInv'
<1>1. Tower(stack) /\ ThreadInv
  BY DEF ConsoleInv
<1>2. Top \in Screens /\ Top.kind = "firmware"
  BY <1>1, TopScreen DEF Inspect, At
<1>3. PICK report \in {"none", "allowed", "confirm", "blocked"} :
        stack' = SetTop([Top EXCEPT !.report = report], stack)
  BY DEF Inspect
<1> DEFINE s == [Top EXCEPT !.report = report]
<1>4. s \in Screens /\ Alike(Top, s)
  BY <1>2, ReportedScreen
<1>5. /\ stack' = SetTop(s, stack) /\ UNCHANGED <<thread, exited>>
      /\ connected' \in BOOLEAN /\ approved' \in BOOLEAN
  BY <1>1, <1>3 DEF Inspect, ThreadInv
<1> HIDE DEF s
<1> QED
  BY <1>4, <1>5, TopChanged

LEMMA ConfirmationFailsInv == ASSUME ConsoleInv, ConfirmationFails PROVE ConsoleInv'
<1>1. Tower(stack) /\ ThreadInv
  BY DEF ConsoleInv
<1>2. Top \in Screens /\ Top.kind = "firmware"
  BY <1>1, TopScreen DEF ConfirmationFails, At
<1>3. /\ UNCHANGED <<thread, exited>> /\ connected' \in BOOLEAN /\ approved' \in BOOLEAN
      /\ exited' \in BOOLEAN
  BY <1>1 DEF ConfirmationFails, ThreadInv
<1>4. CASE UNCHANGED stack
  BY <1>3, <1>4, Unmoved
<1>5. CASE stack' = SetTop([Top EXCEPT !.report = "blocked"], stack)
  <2> DEFINE s == [Top EXCEPT !.report = "blocked"]
  <2>1. s \in Screens /\ Alike(Top, s)
    BY <1>2, ReportedScreen
  <2>2. stack' = SetTop(s, stack)
    BY <1>5
  <2> HIDE DEF s
  <2> QED
    BY <1>3, <2>1, <2>2, TopChanged
<1> QED
  BY <1>4, <1>5 DEF ConfirmationFails

LEMMA RefuseToLeaveInv == ASSUME ConsoleInv, RefuseToLeave PROVE ConsoleInv' /\ Len(stack') = Len(stack)
<1>1. Tower(stack) /\ ThreadInv
  BY DEF ConsoleInv
<1>2. Top \in Screens /\ Top.kind = "progress"
  BY <1>1, TopScreen DEF RefuseToLeave, At
<1> DEFINE s == [Top EXCEPT !.shown = "active"]
<1>3. s \in Screens /\ Alike(Top, s)
  BY <1>2, ReportedScreen
<1>4. /\ stack' = SetTop(s, stack) /\ UNCHANGED <<thread, exited>>
      /\ connected' \in BOOLEAN /\ approved' \in BOOLEAN
  BY <1>1 DEF RefuseToLeave, session, ThreadInv
<1> HIDE DEF s
<1> QED
  BY <1>3, <1>4, TopChanged

(* The two screens that Enter leaves are the finished progress screen and  *)
(* the firmware screen below it.                                           *)
LEMMA FinishedReturn ==
  ASSUME Tower(stack), Top.kind = "progress", stack' = ReturnFrom(stack)
  PROVE  /\ Tower(stack') /\ Len(stack) >= 4 /\ Len(stack') = Len(stack) - 2
         /\ \A i \in 2 .. Len(stack') : Alike(stack[i], stack'[i])
         /\ stack[Len(stack) - 1].kind = "firmware"
         /\ stack'[Len(stack')].kind = "dashboard"
<1>1. PICK n \in Nat \ {0} : n = Len(stack)
  BY TopScreen
<1>2. n \in 2 .. n /\ stack[n].kind = "progress"
  BY <1>1, TopScreen
<1>3. stack[n - 1].kind = "firmware" /\ n - 1 \in 2 .. n
  <2>1. stack[n - 1].kind = "firmware"
    BY <1>1, <1>2 DEF Tower
  <2>2. n - 1 # 1
    BY <2>1 DEF Tower, Port
  <2> QED
    BY <1>2, <2>1, <2>2
<1>4. stack[n - 2].kind = "dashboard" /\ n - 2 \in 2 .. n
  <2>1. stack[n - 2].kind = "dashboard"
    BY <1>1, <1>3 DEF Tower
  <2>2. n - 2 # 1
    BY <2>1 DEF Tower, Port
  <2> QED
    BY <1>3, <2>1, <2>2
<1> DEFINE once == Pop(stack)
<1>5. /\ Tower(once) /\ Len(once) = n - 1
      /\ \A i \in 1 .. n - 1 : Alike(stack[i], once[i])
  BY <1>1, <1>2, PopTower
<1>6. stack' = Pop(once)
  BY DEF ReturnFrom
<1> HIDE DEF once
<1>7. /\ Tower(stack') /\ Len(stack') = n - 2
      /\ \A i \in 1 .. n - 2 : Alike(once[i], stack'[i])
  BY <1>4, <1>5, <1>6, PopTower
<1>8. \A i \in 1 .. n - 2 : Alike(stack[i], stack'[i])
  <2>1. ASSUME NEW i \in 1 .. n - 2
        PROVE  Alike(stack[i], stack'[i])
    BY <1>5, <1>7 DEF Alike, Same
  <2> QED
    BY <2>1
<1>9. stack'[n - 2].kind = "dashboard"
  BY <1>4, <1>8 DEF Alike, Same
<1> QED
  BY <1>1, <1>3, <1>4, <1>7, <1>8, <1>9

LEMMA ReturnDashboardInv == ASSUME ConsoleInv, ReturnDashboard PROVE ConsoleInv'
<1>1. Tower(stack) /\ ThreadInv /\ CallInv
  BY DEF ConsoleInv
<1>2. Top.kind = "progress"
  BY DEF ReturnDashboard, At
<1>3. CASE ~Finished(Top)
  BY <1>3, RefuseToLeaveInv DEF ReturnDashboard, RefuseToLeave
<1>4. CASE Finished(Top)
  <2>1. stack' = ReturnFrom(stack)
    BY <1>4 DEF ReturnDashboard
  <2>2. /\ Tower(stack') /\ Len(stack) >= 4 /\ Len(stack') = Len(stack) - 2
        /\ \A i \in 2 .. Len(stack') : Alike(stack[i], stack'[i])
        /\ stack[Len(stack) - 1].kind = "firmware"
    BY <1>1, <1>2, <2>1, FinishedReturn
  <2>3. Len(stack) \in Nat /\ ~Open(stack[Len(stack)]) /\ ~Open(stack[Len(stack) - 1])
    BY <1>1, <1>4, <2>2, TopScreen DEF Finished, Open
  <2>4. KeptStack
    <3>1. Len(stack') \in Nat /\ Len(stack') <= Len(stack)
      BY <2>2, <2>3
    <3>2. ASSUME NEW i \in 2 .. Len(stack), i > Len(stack') PROVE ~Open(stack[i])
      <4>1. i = Len(stack) \/ i = Len(stack) - 1
        BY <2>2, <2>3, <3>2
      <4> QED
        BY <2>3, <4>1
    <3> QED
      BY <2>2, <3>1, <3>2 DEF KeptStack
  <2>5. ThreadInv' /\ KeptCalls
    BY <1>1, ThreadsUnmoved DEF ReturnDashboard, session, ThreadInv
  <2>6. CallInv'
    BY <1>1, <2>4, <2>5, KeptCallInv
  <2> QED
    BY <2>2, <2>5, <2>6 DEF ConsoleInv
<1> QED
  BY <1>3, <1>4

LEMMA LeaveInv == ASSUME ConsoleInv, Leave PROVE ConsoleInv'
<1>1. ThreadInv
  BY DEF ConsoleInv
<1> QED
  BY <1>1, Unmoved DEF Leave, session, ThreadInv

(* A name that is free.                                                    *)
LEMMA FreeId ==
  ASSUME ConsoleInv, NEW id \in FreeIds
  PROVE  /\ id \in Ids
         /\ \A i \in 2 .. Len(stack) : stack[i].id # id
         /\ \A t \in Threads : thread[t].op # "none" => thread[t].screen # id
BY DEF FreeIds, ScreenIds, WaitedFor

LEMMA ConnectStepInv == ASSUME ConsoleInv, Connect PROVE ConsoleInv'
<1>1. Tower(stack) /\ ThreadInv /\ CallInv
  BY DEF ConsoleInv
<1>2. PICK id \in FreeIds : Start("connect", id)
  BY DEF Connect
<1>3. PICK t \in Threads : /\ thread[t] = Idle
                           /\ thread' = [thread EXCEPT ![t] = Call("connect", id)]
  BY <1>2 DEF Start
<1>4. /\ id \in Ids /\ \A i \in 2 .. Len(stack) : stack[i].id # id
      /\ \A u \in Threads : thread[u].op # "none" => thread[u].screen # id
  BY FreeId
<1>5. UNCHANGED <<stack, exited>> /\ connected' \in BOOLEAN /\ approved' \in BOOLEAN
  BY <1>1 DEF Connect, session, ThreadInv
<1>6. /\ ThreadInv' /\ thread[t].op = "none"
      /\ thread'[t].op = "connect" /\ thread'[t].screen = id
      /\ \A u \in Threads \ {t} : thread'[u] = thread[u]
  BY <1>1, <1>3, <1>4, <1>5, Started
<1>7. \A u \in Threads : \A op \in {"poll", "flash"} :
        thread'[u].op = op <=> (thread[u].op = op /\ u # t)
  BY <1>6
<1>8. WatchInv'
  BY <1>1, <1>5, <1>6, <1>7 DEF CallInv, WatchInv, Open
<1>9. PollInv'
  BY <1>1, <1>5, <1>6, <1>7 DEF CallInv, PollInv
<1>10. ConnectInv'
  BY <1>1, <1>4, <1>5, <1>6 DEF CallInv, ConnectInv, Active
<1> QED
  BY <1>1, <1>5, <1>6, <1>8, <1>9, <1>10 DEF ConsoleInv, CallInv, Tower
-------------------------------------------------------------------------------
(* The same for the steps that begin a call or report one.                 *)

LEMMA MappedTower ==
  ASSUME NEW screens, Tower(screens), NEW new \in [1 .. Len(screens) -> Screens],
         \A i \in 1 .. Len(screens) :
           /\ Same(screens[i], new[i])
           /\ screens[i].kind = "dashboard" => new[i].polling = screens[i].polling
  PROVE  Tower(new) /\ Len(new) = Len(screens)
<1>1. PICK n \in Nat \ {0} : n = Len(screens)
  BY DEF Tower
<1>2. new \in Seq(Screens) /\ Len(new) = n
  BY <1>1, SeqDef
<1>3. \A i \in 2 .. Len(new) - 1 : new[i].kind = "dashboard" => ~new[i].polling
  BY <1>1, <1>2 DEF Tower, Same
<1>4. \A i \in 1 .. Len(new) : Same(screens[i], new[i])
  BY <1>1, <1>2
<1>5. Tower(new)
  BY <1>1, <1>2, <1>3, <1>4, StillTower
<1> QED
  BY <1>1, <1>2, <1>5

LEMMA StackElements ==
  ASSUME Tower(stack)
  PROVE  /\ stack \in [1 .. Len(stack) -> Screens] /\ DOMAIN stack = 1 .. Len(stack)
         /\ \A i \in 1 .. Len(stack) : stack[i] \in Screens
         /\ \A i \in 2 .. Len(stack) : i \in 1 .. Len(stack) /\ stack[i].kind # "port"
BY LenProperties, ElementOfSeq DEF Tower

(* A dashboard starts or stops to wait for its poll.                       *)
LEMMA RefreshInv == ASSUME ConsoleInv, Refresh PROVE ConsoleInv' /\ Len(stack') = Len(stack)
<1>1. Tower(stack) /\ ThreadInv /\ CallInv
  BY DEF ConsoleInv
<1>2. PICK i \in 2 .. Len(stack) :
        /\ stack[i].kind = "dashboard" /\ ~stack[i].inflight
        /\ stack' = [stack EXCEPT ![i].inflight = TRUE]
        /\ Start("poll", stack[i].id)
  BY DEF Refresh
<1>3. PICK t \in Threads : /\ thread[t] = Idle
                           /\ thread' = [thread EXCEPT ![t] = Call("poll", stack[i].id)]
  BY <1>2 DEF Start
<1>4. i \in 1 .. Len(stack) /\ stack[i] \in Screens /\ stack[i].id \in Ids
  BY <1>1, <1>2, StackElements, KindOfScreen
<1> DEFINE s == [stack[i] EXCEPT !.inflight = TRUE]
<1>5. /\ s \in Screens /\ s.kind = "dashboard" /\ s.id = stack[i].id
      /\ s.polling = stack[i].polling /\ s.inflight = TRUE
  BY <1>2, <1>4, ReportedScreen
<1>6. stack' = [stack EXCEPT ![i] = s]
  BY <1>2
<1> HIDE DEF s
<1>7. /\ stack' \in [1 .. Len(stack) -> Screens] /\ stack'[i] = s
      /\ \A j \in 1 .. Len(stack) : j # i => stack'[j] = stack[j]
  BY <1>1, <1>4, <1>5, <1>6, StackElements
<1>8. Tower(stack') /\ Len(stack') = Len(stack)
  BY <1>1, <1>2, <1>5, <1>7, MappedTower DEF Same
<1>9. /\ ThreadInv' /\ thread[t].op = "none"
      /\ thread'[t].op = "poll" /\ thread'[t].screen = stack[i].id
      /\ \A u \in Threads \ {t} : thread'[u] = thread[u]
  <2>1. UNCHANGED exited /\ connected' \in BOOLEAN /\ approved' \in BOOLEAN
    BY <1>1 DEF Refresh, session, ThreadInv
  <2> QED
    BY <1>1, <1>3, <1>4, <2>1, Started
<1>10. ASSUME NEW j \in 2 .. Len(stack)
       PROVE  /\ stack'[j].kind = stack[j].kind /\ stack'[j].id = stack[j].id
              /\ Open(stack'[j]) <=> Open(stack[j])
              /\ j # i => stack'[j] = stack[j]
              /\ stack[j].id = stack[i].id => j = i
  <2>1. j \in 1 .. Len(stack)
    OBVIOUS
  <2>2. stack[j].id = stack[i].id => j = i
    BY <1>1 DEF Tower
  <2> QED
    BY <1>2, <1>5, <1>7, <2>1, <2>2 DEF Open
<1>11. WatchInv'
  BY <1>1, <1>8, <1>9, <1>10 DEF CallInv, WatchInv
<1>12. PollInv'
  <2>1. ASSUME NEW u \in Threads, NEW j \in 2 .. Len(stack'), thread'[u].op = "poll",
               stack'[j].id = thread'[u].screen
        PROVE  stack'[j].kind = "dashboard" /\ stack'[j].inflight
    <3>1. CASE u = t
      BY <1>2, <1>5, <1>7, <1>8, <1>9, <1>10, <2>1, <3>1
    <3>2. CASE u # t
      <4>1. stack[j].kind = "dashboard" /\ stack[j].inflight
        BY <1>1, <1>8, <1>9, <1>10, <2>1, <3>2 DEF CallInv, PollInv
      <4> QED
        BY <1>5, <1>7, <1>8, <1>10, <4>1
    <3> QED
      BY <3>1, <3>2
  <2>2. ASSUME NEW j \in 2 .. Len(stack'), stack'[j].kind = "dashboard", stack'[j].inflight
        PROVE  \E u \in Threads : thread'[u].op = "poll" /\ stack'[j].id = thread'[u].screen
    <3>1. CASE j = i
      BY <1>8, <1>9, <1>10, <3>1
    <3>2. CASE j # i
      <4>1. PICK u \in Threads : thread[u].op = "poll" /\ stack[j].id = thread[u].screen
        BY <1>1, <1>8, <1>10, <2>2, <3>2 DEF CallInv, PollInv
      <4> QED
        BY <1>8, <1>9, <1>10, <4>1
    <3> QED
      BY <3>1, <3>2
  <2>3. ASSUME NEW u \in Threads, thread[u].op = "poll"
        PROVE  thread[u].screen # stack[i].id
    BY <1>1, <1>2, <2>3 DEF CallInv, PollInv
  <2>4. ASSUME NEW u \in Threads, NEW v \in Threads,
               thread'[u].op = "poll", thread'[v].op = "poll",
               thread'[u].screen = thread'[v].screen
        PROVE  u = v
    BY <1>1, <1>9, <2>3, <2>4 DEF CallInv, PollInv
  <2> QED
    BY <2>1, <2>2, <2>4 DEF PollInv
<1>13. ConnectInv'
  BY <1>1, <1>8, <1>9, <1>10 DEF CallInv, ConnectInv, Active
<1> QED
  BY <1>8, <1>9, <1>11, <1>12, <1>13 DEF ConsoleInv, CallInv

(* A screen is pushed that nobody reports to, and a call may have ended    *)
(* that no screen waits for.                                               *)
LEMMA PushedCallInv ==
  ASSUME Tower(stack), CallInv, NEW s, Pushed(s), ~Open(s),
         s.kind = "dashboard" => ~s.inflight,
         \A u \in Threads :
           /\ thread'[u].op # "none" => thread'[u] = thread[u] /\ thread[u].screen # s.id
           /\ thread[u].op \in {"poll", "flash"} => thread'[u] = thread[u]
  PROVE  CallInv'
<1>1. PICK n \in Nat \ {0} : n = Len(stack)
  BY DEF Tower
<1>2. Len(stack') = n + 1 /\ stack'[n + 1] = s
  BY <1>1 DEF Pushed
<1>3. ASSUME NEW i \in 2 .. n
      PROVE  /\ stack'[i].kind = stack[i].kind /\ stack'[i].id = stack[i].id
             /\ Open(stack'[i]) <=> Open(stack[i])
             /\ stack[i].kind = "dashboard" => stack'[i].inflight = stack[i].inflight
             /\ stack'[i].kind = "dashboard" /\ stack'[i].inflight <=>
                  stack[i].kind = "dashboard" /\ stack[i].inflight
  <2>1. i \in 2 .. Len(stack) /\ Alike(stack[i], stack'[i])
    BY <1>1 DEF Pushed
  <2> QED
    BY <2>1, AlikeStack
<1>4. \A i \in 2 .. Len(stack') : i \in 2 .. n \/ i = n + 1
  BY <1>2
<1>5. \A i \in 2 .. n : i \in 2 .. Len(stack')
  BY <1>2
<1>6. WatchInv'
  <2>1. ASSUME NEW t \in Threads, thread'[t].op = "flash"
        PROVE  \E i \in 2 .. Len(stack') :
                 Open(stack'[i]) /\ stack'[i].id = thread'[t].screen
    <3>1. thread'[t] = thread[t]
      BY <2>1
    <3>2. PICK i \in 2 .. n : Open(stack[i]) /\ stack[i].id = thread[t].screen
      BY <1>1, <2>1, <3>1 DEF CallInv, WatchInv
    <3> QED
      BY <1>3, <1>5, <3>1, <3>2
  <2>2. ASSUME NEW i \in 2 .. Len(stack'), Open(stack'[i])
        PROVE  \E t \in Threads : thread'[t].op = "flash" /\ stack'[i].id = thread'[t].screen
    <3>1. i \in 2 .. n /\ Open(stack[i])
      BY <1>2, <1>3, <1>4, <2>2
    <3>2. PICK t \in Threads : thread[t].op = "flash" /\ stack[i].id = thread[t].screen
      BY <1>1, <3>1 DEF CallInv, WatchInv
    <3> QED
      BY <1>3, <3>1, <3>2
  <2>3. ASSUME NEW t \in Threads, NEW u \in Threads,
               thread'[t].op = "flash", thread'[u].op = "flash",
               thread'[t].screen = thread'[u].screen
        PROVE  t = u
    BY <2>3 DEF CallInv, WatchInv
  <2> QED
    BY <2>1, <2>2, <2>3 DEF WatchInv
<1>7. PollInv'
  <2>1. ASSUME NEW t \in Threads, NEW i \in 2 .. Len(stack'), thread'[t].op = "poll",
               stack'[i].id = thread'[t].screen
        PROVE  stack'[i].kind = "dashboard" /\ stack'[i].inflight
    <3>1. thread'[t] = thread[t] /\ i \in 2 .. n
      BY <1>2, <1>4, <2>1
    <3> QED
      BY <1>1, <1>3, <2>1, <3>1 DEF CallInv, PollInv
  <2>2. ASSUME NEW i \in 2 .. Len(stack'), stack'[i].kind = "dashboard", stack'[i].inflight
        PROVE  \E t \in Threads : thread'[t].op = "poll" /\ stack'[i].id = thread'[t].screen
    <3>1. i \in 2 .. n
      BY <1>2, <1>4, <2>2
    <3>2. PICK t \in Threads : thread[t].op = "poll" /\ stack[i].id = thread[t].screen
      BY <1>1, <1>3, <2>2, <3>1 DEF CallInv, PollInv
    <3> QED
      BY <1>3, <3>1, <3>2
  <2>3. ASSUME NEW t \in Threads, NEW u \in Threads,
               thread'[t].op = "poll", thread'[u].op = "poll",
               thread'[t].screen = thread'[u].screen
        PROVE  t = u
    BY <2>3 DEF CallInv, PollInv
  <2> QED
    BY <2>1, <2>2, <2>3 DEF PollInv
<1>8. ConnectInv'
  <2> SUFFICES ASSUME NEW t \in Threads, thread'[t].op = "connect"
               PROVE  /\ \A i \in 2 .. Len(stack') : stack'[i].id # thread'[t].screen
                      /\ \A u \in Threads \ {t} :
                           thread'[u].op # "none" => thread'[u].screen # thread'[t].screen
    BY DEF ConnectInv, Active
  <2>1. thread'[t] = thread[t] /\ thread[t].screen # s.id
    OBVIOUS
  <2>2. /\ \A i \in 2 .. n : stack[i].id # thread[t].screen
        /\ \A u \in Threads \ {t} :
             thread[u].op # "none" => thread[u].screen # thread[t].screen
    BY <1>1, <2>1 DEF CallInv, ConnectInv, Active
  <2> QED
    BY <1>2, <1>3, <1>4, <2>1, <2>2
<1> QED
  BY <1>6, <1>7, <1>8 DEF CallInv

(* A screen is pushed when the one below has been changed.                 *)
LEMMA ChangedAndPushed ==
  ASSUME Tower(stack), NEW r \in Screens, Alike(Top, r),
         NEW s \in Screens, s.kind # "port",
         s.kind = "firmware" => Top.kind = "dashboard",
         s.kind = "progress" => Top.kind = "firmware",
         \A i \in 2 .. Len(stack) : stack[i].id # s.id,
         stack' = Push(s, SetTop(r, stack))
  PROVE  Tower(stack') /\ Pushed(s)
<1>1. PICK n \in Nat \ {0} : n = Len(stack)
  BY TopScreen
<1>2. Top = stack[n] /\ Last(stack) = Top /\ (Top.kind # "port" <=> n \in 2 .. n)
  BY <1>1, TopScreen
<1> DEFINE below == SetTop(r, stack)
<1>3. /\ Tower(below) /\ Len(below) = n /\ below[n] = r
      /\ \A i \in 1 .. n - 1 : below[i] = stack[i]
  BY <1>1, <1>2, SetTopTower DEF Alike
<1>4. stack' = Push(s, below)
  OBVIOUS
<1> HIDE DEF below
<1>5. Last(below).kind = Top.kind
  BY <1>2, <1>3 DEF Last, Alike, Same
<1>6. \A i \in 2 .. n : below[i].id # s.id
  <2>1. \A i \in 2 .. n : i = n \/ i \in 1 .. n - 1
    OBVIOUS
  <2> QED
    BY <1>1, <1>2, <1>3, <2>1 DEF Alike, Same
<1>7. /\ Tower(stack') /\ Len(stack') = n + 1 /\ stack'[n + 1] = s
      /\ \A i \in 1 .. n : Alike(below[i], stack'[i])
  BY <1>3, <1>4, <1>5, <1>6, PushTower
<1>8. ASSUME NEW i \in 2 .. n PROVE Alike(stack[i], stack'[i])
  <2>1. CASE i = n
    BY <1>2, <1>3, <1>7, <2>1 DEF Alike, Same
  <2>2. CASE i # n
    BY <1>3, <1>7, <2>2
  <2> QED
    BY <2>1, <2>2
<1> QED
  BY <1>1, <1>7, <1>8 DEF Pushed

LEMMA UpgradeInv == ASSUME ConsoleInv, Upgrade PROVE ConsoleInv'
<1>1. Tower(stack) /\ ThreadInv /\ CallInv
  BY DEF ConsoleInv
<1>2. PICK id \in FreeIds : stack' = Push(Firmware(id), SetTop(Polling(Top, FALSE), stack))
  BY DEF Upgrade
<1>3. Top \in Screens /\ Top.kind = "dashboard"
  BY <1>1, TopScreen DEF Upgrade, At
<1> DEFINE r == Polling(Top, FALSE)
           s == Firmware(id)
<1>4. r \in Screens /\ Alike(Top, r)
  <2>1. FALSE \in BOOLEAN
    OBVIOUS
  <2> QED
    BY <1>3, <2>1, PollingScreen
<1>5. s \in Screens /\ s.kind = "firmware" /\ s.id = id /\ ~Open(s)
  BY FreeId DEF Firmware, Screens, Open
<1>6. stack' = Push(s, SetTop(r, stack))
  BY <1>2
<1> HIDE DEF r, s
<1>7. Tower(stack') /\ Pushed(s)
  BY <1>1, <1>3, <1>4, <1>5, <1>6, ChangedAndPushed, FreeId
<1>8. ThreadInv' /\ thread' = thread
  BY <1>1, ThreadsUnmoved DEF Upgrade, session, ThreadInv
<1>9. \A u \in Threads : thread[u].op # "none" => thread[u].screen # s.id
  BY <1>5, FreeId
<1>10. CallInv'
  BY <1>1, <1>5, <1>7, <1>8, <1>9, PushedCallInv
<1> QED
  BY <1>7, <1>8, <1>10 DEF ConsoleInv

LEMMA StartFlashInv == ASSUME ConsoleInv, StartFlash PROVE ConsoleInv'
<1>1. Tower(stack) /\ ThreadInv /\ CallInv
  BY DEF ConsoleInv
<1>2. PICK id \in FreeIds :
        /\ Start("flash", id)
        /\ stack' = Push(Progress(id), SetTop([Top EXCEPT !.report = "allowed"], stack))
  BY DEF StartFlash
<1>3. PICK t \in Threads : /\ thread[t] = Idle
                           /\ thread' = [thread EXCEPT ![t] = Call("flash", id)]
  BY <1>2 DEF Start
<1>4. Top \in Screens /\ Top.kind = "firmware"
  BY <1>1, TopScreen DEF StartFlash, At
<1>5. /\ id \in Ids /\ \A i \in 2 .. Len(stack) : stack[i].id # id
      /\ \A u \in Threads : thread[u].op # "none" => thread[u].screen # id
  BY FreeId
<1> DEFINE r == [Top EXCEPT !.report = "allowed"]
           s == Progress(id)
<1>6. r \in Screens /\ Alike(Top, r)
  BY <1>4, ReportedScreen
<1>7. s \in Screens /\ s.kind = "progress" /\ s.id = id /\ Open(s)
  BY <1>5 DEF Progress, Screens, Open
<1>8. stack' = Push(s, SetTop(r, stack))
  BY <1>2
<1> HIDE DEF r, s
<1>9. Tower(stack') /\ Pushed(s)
  BY <1>1, <1>4, <1>5, <1>6, <1>7, <1>8, ChangedAndPushed
<1>10. /\ ThreadInv' /\ thread[t].op = "none"
       /\ thread'[t].op = "flash" /\ thread'[t].screen = id
       /\ \A u \in Threads \ {t} : thread'[u] = thread[u]
  <2>1. UNCHANGED exited /\ connected' \in BOOLEAN /\ approved' \in BOOLEAN
    BY <1>1 DEF StartFlash, ThreadInv
  <2> QED
    BY <1>1, <1>3, <1>5, <2>1, Started
<1>11. PICK n \in Nat \ {0} : n = Len(stack)
  BY <1>1, TopScreen
<1>12. Len(stack') = n + 1 /\ stack'[n + 1] = s
  BY <1>9, <1>11 DEF Pushed
<1>13. ASSUME NEW i \in 2 .. n
       PROVE  /\ i \in 2 .. Len(stack')
              /\ stack'[i].kind = stack[i].kind /\ stack'[i].id = stack[i].id
              /\ Open(stack'[i]) <=> Open(stack[i])
              /\ stack[i].kind = "dashboard" => stack'[i].inflight = stack[i].inflight
              /\ stack'[i].kind = "dashboard" /\ stack'[i].inflight <=>
                   stack[i].kind = "dashboard" /\ stack[i].inflight
              /\ stack[i].id # id
  <2>1. i \in 2 .. Len(stack) /\ Alike(stack[i], stack'[i])
    BY <1>9, <1>11 DEF Pushed
  <2> QED
    BY <1>1, <1>5, <1>12, <2>1, AlikeStack
<1>14. \A i \in 2 .. Len(stack') : i \in 2 .. n \/ i = n + 1
  BY <1>12
<1>15. ASSUME NEW u \in Threads, NEW op \in {"connect", "poll", "flash"}
       PROVE  /\ op # "flash" => (thread'[u].op = op <=> thread[u].op = op)
              /\ thread[u].op = op =>
                   thread'[u] = thread[u] /\ thread'[u].screen # id
  BY <1>5, <1>10
<1>16. WatchInv'
  <2>1. ASSUME NEW u \in Threads, thread'[u].op = "flash"
        PROVE  \E i \in 2 .. Len(stack') :
                 Open(stack'[i]) /\ stack'[i].id = thread'[u].screen
    <3>1. CASE u = t
      <4>1. n + 1 \in 2 .. Len(stack')
        BY <1>12
      <4> QED
        BY <1>7, <1>10, <1>12, <3>1, <4>1
    <3>2. CASE u # t
      <4>1. PICK i \in 2 .. n : Open(stack[i]) /\ stack[i].id = thread[u].screen
        BY <1>1, <1>10, <1>11, <2>1, <3>2 DEF CallInv, WatchInv
      <4> QED
        BY <1>10, <1>13, <3>2, <4>1
    <3> QED
      BY <3>1, <3>2
  <2>2. ASSUME NEW i \in 2 .. Len(stack'), Open(stack'[i])
        PROVE  \E u \in Threads : thread'[u].op = "flash" /\ stack'[i].id = thread'[u].screen
    <3>1. CASE i = n + 1
      BY <1>7, <1>10, <1>12, <3>1
    <3>2. CASE i \in 2 .. n
      <4>1. PICK u \in Threads : thread[u].op = "flash" /\ stack[i].id = thread[u].screen
        BY <1>1, <1>11, <1>13, <2>2, <3>2 DEF CallInv, WatchInv
      <4> QED
        BY <1>13, <1>15, <3>2, <4>1
    <3> QED
      BY <1>14, <3>1, <3>2
  <2>3. ASSUME NEW u \in Threads, NEW v \in Threads,
               thread'[u].op = "flash", thread'[v].op = "flash",
               thread'[u].screen = thread'[v].screen
        PROVE  u = v
    BY <1>1, <1>10, <1>15, <2>3 DEF CallInv, WatchInv
  <2> QED
    BY <2>1, <2>2, <2>3 DEF WatchInv
<1>17. PollInv'
  <2>1. ASSUME NEW u \in Threads, NEW i \in 2 .. Len(stack'), thread'[u].op = "poll",
               stack'[i].id = thread'[u].screen
        PROVE  stack'[i].kind = "dashboard" /\ stack'[i].inflight
    <3>1. thread[u].op = "poll" /\ thread'[u] = thread[u] /\ thread'[u].screen # id
      BY <1>15, <2>1
    <3>2. i \in 2 .. n
      BY <1>7, <1>12, <1>14, <2>1, <3>1
    <3> QED
      BY <1>1, <1>11, <1>13, <2>1, <3>1, <3>2 DEF CallInv, PollInv
  <2>2. ASSUME NEW i \in 2 .. Len(stack'), stack'[i].kind = "dashboard", stack'[i].inflight
        PROVE  \E u \in Threads : thread'[u].op = "poll" /\ stack'[i].id = thread'[u].screen
    <3>1. i \in 2 .. n
      BY <1>7, <1>12, <1>14, <2>2
    <3>2. PICK u \in Threads : thread[u].op = "poll" /\ stack[i].id = thread[u].screen
      BY <1>1, <1>11, <1>13, <2>2, <3>1 DEF CallInv, PollInv
    <3> QED
      BY <1>13, <1>15, <3>1, <3>2
  <2>3. ASSUME NEW u \in Threads, NEW v \in Threads,
               thread'[u].op = "poll", thread'[v].op = "poll",
               thread'[u].screen = thread'[v].screen
        PROVE  u = v
    BY <1>1, <1>15, <2>3 DEF CallInv, PollInv
  <2> QED
    BY <2>1, <2>2, <2>3 DEF PollInv
<1>18. ConnectInv'
  <2> SUFFICES ASSUME NEW v \in Threads, thread'[v].op = "connect"
               PROVE  /\ \A i \in 2 .. Len(stack') : stack'[i].id # thread'[v].screen
                      /\ \A u \in Threads \ {v} :
                           thread'[u].op # "none" => thread'[u].screen # thread'[v].screen
    BY DEF ConnectInv, Active
  <2>1. thread[v].op = "connect" /\ thread'[v] = thread[v] /\ thread'[v].screen # id
    BY <1>15
  <2>2. /\ \A i \in 2 .. n : stack[i].id # thread[v].screen
        /\ \A u \in Threads \ {v} :
             thread[u].op # "none" => thread[u].screen # thread[v].screen
    BY <1>1, <1>11, <2>1 DEF CallInv, ConnectInv, Active
  <2>3. \A i \in 2 .. Len(stack') : stack'[i].id # thread'[v].screen
    BY <1>7, <1>12, <1>13, <1>14, <2>1, <2>2
  <2> QED
    BY <1>10, <2>1, <2>2, <2>3
<1> QED
  BY <1>9, <1>10, <1>16, <1>17, <1>18 DEF ConsoleInv, CallInv

LEMMA ReportConnectInv ==
  ASSUME ConsoleInv, NEW t \in Threads, ReportConnect(t) PROVE ConsoleInv' /\ Len(stack') >= Len(stack)
<1>1. Tower(stack) /\ ThreadInv /\ CallInv
  BY DEF ConsoleInv
<1>2. thread[t].op = "connect" /\ thread' = [thread EXCEPT ![t] = Idle]
  BY DEF ReportConnect, Report
<1>3. /\ ThreadInv' /\ thread'[t].op = "none"
      /\ \A u \in Threads \ {t} : thread'[u] = thread[u]
  BY <1>1, <1>2, Ready DEF ReportConnect, Report
<1> DEFINE id == thread[t].screen
<1>4. id \in Ids
  BY <1>1, <1>2 DEF ThreadInv, CallStates, Idle
<1>5. /\ \A i \in 2 .. Len(stack) : stack[i].id # id
      /\ \A u \in Threads \ {t} : thread[u].op # "none" => thread[u].screen # id
  BY <1>1, <1>2 DEF CallInv, ConnectInv, Active
<1>6. CASE stack' = Push(Dashboard(id), stack)
  <2> DEFINE s == Dashboard(id)
  <2>1. s \in Screens /\ s.kind = "dashboard" /\ s.id = id /\ ~Open(s) /\ ~s.inflight
    BY <1>4 DEF Dashboard, Screens, Open
  <2>2. stack' = Push(s, stack)
    BY <1>6
  <2> HIDE DEF s
  <2>3. /\ Tower(stack') /\ Len(stack') = Len(stack) + 1 /\ stack'[Len(stack) + 1] = s
        /\ \A i \in 1 .. Len(stack) : Alike(stack[i], stack'[i])
    BY <1>1, <1>5, <2>1, <2>2, PushTower
  <2>4. Pushed(s)
    <3>1. \A i \in 2 .. Len(stack) : i \in 1 .. Len(stack)
      OBVIOUS
    <3> QED
      BY <2>3, <3>1 DEF Pushed
  <2>5. CallInv'
    BY <1>1, <1>2, <1>3, <1>5, <2>1, <2>4, PushedCallInv
  <2> QED
    BY <1>1, <1>3, <2>3, <2>5 DEF ConsoleInv, Tower
<1>7. CASE UNCHANGED stack
  <2>1. WatchInv'
    BY <1>1, <1>2, <1>3, <1>7 DEF CallInv, WatchInv, Open
  <2>2. PollInv'
    BY <1>1, <1>2, <1>3, <1>7 DEF CallInv, PollInv
  <2>3. ConnectInv'
    BY <1>1, <1>3, <1>7 DEF CallInv, ConnectInv, Active
  <2>4. Tower(stack')
    BY <1>1, <1>7
  <2> QED
    BY <1>1, <1>3, <1>7, <2>1, <2>2, <2>3, <2>4 DEF ConsoleInv, CallInv, Tower
<1> QED
  BY <1>6, <1>7 DEF ReportConnect

LEMMA ReportPollInv ==
  ASSUME ConsoleInv, NEW t \in Threads, ReportPoll(t) PROVE ConsoleInv' /\ Len(stack') = Len(stack)
<1>1. Tower(stack) /\ ThreadInv /\ CallInv
  BY DEF ConsoleInv
<1>2. thread[t].op = "poll" /\ thread' = [thread EXCEPT ![t] = Idle]
  BY DEF ReportPoll, Report
<1>3. /\ ThreadInv' /\ thread'[t].op = "none"
      /\ \A u \in Threads \ {t} : thread'[u] = thread[u]
  BY <1>1, <1>2, Ready DEF ReportPoll, Report
<1> DEFINE id == thread[t].screen
<1>4. /\ DOMAIN stack' = 1 .. Len(stack)
      /\ stack' = [i \in 1 .. Len(stack) |->
                     IF i > 1 /\ stack[i].id = id THEN [stack[i] EXCEPT !.inflight = FALSE]
                     ELSE stack[i]]
  BY <1>1, StackElements DEF ReportPoll, WaitsFor, PollReported
<1>5. ASSUME NEW i \in 2 .. Len(stack), stack[i].id = id
      PROVE  /\ stack[i].kind = "dashboard" /\ stack'[i] \in Screens
             /\ Same(stack[i], stack'[i]) /\ stack'[i].polling = stack[i].polling
             /\ stack'[i].inflight = FALSE
  <2>1. stack[i].kind = "dashboard"
    BY <1>1, <1>2, <1>5 DEF CallInv, PollInv
  <2>2. stack[i] \in Screens /\ FALSE \in BOOLEAN /\ i \in 1 .. Len(stack)
    BY <1>1, StackElements
  <2>3. stack'[i] = [stack[i] EXCEPT !.inflight = FALSE]
    BY <1>4, <1>5, <2>2
  <2>4. /\ [stack[i] EXCEPT !.inflight = FALSE] \in Screens
        /\ [stack[i] EXCEPT !.inflight = FALSE].kind = "dashboard"
        /\ [stack[i] EXCEPT !.inflight = FALSE].id = stack[i].id
        /\ [stack[i] EXCEPT !.inflight = FALSE].polling = stack[i].polling
        /\ [stack[i] EXCEPT !.inflight = FALSE].inflight = FALSE
    BY <2>1, <2>2, ReportedScreen
  <2> QED
    BY <2>1, <2>3, <2>4 DEF Same
<1>6. ASSUME NEW i \in 1 .. Len(stack), ~(i > 1 /\ stack[i].id = id)
      PROVE  stack'[i] = stack[i]
  BY <1>4, <1>6
<1>7. ASSUME NEW i \in 1 .. Len(stack)
      PROVE  /\ stack'[i] \in Screens /\ Same(stack[i], stack'[i])
             /\ stack[i].kind = "dashboard" => stack'[i].polling = stack[i].polling
  <2>1. CASE i > 1 /\ stack[i].id = id
    <3>1. i \in 2 .. Len(stack)
      BY <2>1
    <3> QED
      BY <1>5, <2>1, <3>1
  <2>2. CASE ~(i > 1 /\ stack[i].id = id)
    BY <1>1, <1>6, <2>2, StackElements DEF Same
  <2> QED
    BY <2>1, <2>2
<1>8. stack' \in [1 .. Len(stack) -> Screens]
  BY <1>4, <1>7
<1>9. Tower(stack') /\ Len(stack') = Len(stack)
  BY <1>1, <1>7, <1>8, MappedTower
<1>10. ASSUME NEW i \in 2 .. Len(stack)
       PROVE  /\ stack'[i].kind = stack[i].kind /\ stack'[i].id = stack[i].id
              /\ Open(stack'[i]) <=> Open(stack[i])
              /\ stack[i].id # id => stack'[i] = stack[i]
              /\ stack[i].id = id => ~stack'[i].inflight
  <2>1. i \in 1 .. Len(stack) /\ stack[i].kind # "port"
    BY <1>1, StackElements
  <2>2. stack[i].id # id => stack'[i] = stack[i]
    BY <1>6, <2>1
  <2>3. stack[i].id = id => stack[i].kind = "dashboard" /\ stack'[i].inflight = FALSE
    BY <1>5
  <2>4. stack'[i].kind = stack[i].kind /\ stack'[i].id = stack[i].id
    BY <1>7, <2>1 DEF Same
  <2>5. Open(stack'[i]) <=> Open(stack[i])
    BY <2>2, <2>3, <2>4 DEF Open
  <2> QED
    BY <2>2, <2>3, <2>4, <2>5
<1>11. ASSUME NEW u \in Threads, NEW op \in {"connect", "poll", "flash"},
              thread'[u].op = op
       PROVE  u # t /\ thread'[u] = thread[u]
  BY <1>3, <1>11
<1>12. ASSUME NEW u \in Threads, thread[u].op # "poll"
       PROVE  thread'[u] = thread[u]
  BY <1>2, <1>3, <1>12
<1>13. WatchInv'
  BY <1>1, <1>9, <1>10, <1>11, <1>12 DEF CallInv, WatchInv
<1>14. PollInv'
  <2>1. ASSUME NEW u \in Threads, NEW i \in 2 .. Len(stack'), thread'[u].op = "poll",
               stack'[i].id = thread'[u].screen
        PROVE  stack'[i].kind = "dashboard" /\ stack'[i].inflight
    <3>1. u # t /\ thread[u].op = "poll" /\ thread'[u] = thread[u]
      BY <1>11, <2>1
    <3>2. thread[u].screen # id
      BY <1>1, <1>2, <3>1 DEF CallInv, PollInv
    <3>3. stack'[i] = stack[i]
      BY <1>9, <1>10, <2>1, <3>1, <3>2
    <3> QED
      BY <1>1, <1>9, <2>1, <3>1, <3>3 DEF CallInv, PollInv
  <2>2. ASSUME NEW i \in 2 .. Len(stack'), stack'[i].kind = "dashboard", stack'[i].inflight
        PROVE  \E u \in Threads : thread'[u].op = "poll" /\ stack'[i].id = thread'[u].screen
    <3>1. stack[i].id # id /\ stack'[i] = stack[i]
      BY <1>9, <1>10, <2>2
    <3>2. PICK u \in Threads : thread[u].op = "poll" /\ stack[i].id = thread[u].screen
      BY <1>1, <1>9, <2>2, <3>1 DEF CallInv, PollInv
    <3> QED
      BY <1>3, <3>1, <3>2
  <2>3. ASSUME NEW u \in Threads, NEW v \in Threads,
               thread'[u].op = "poll", thread'[v].op = "poll",
               thread'[u].screen = thread'[v].screen
        PROVE  u = v
    BY <1>1, <1>11, <2>3 DEF CallInv, PollInv
  <2> QED
    BY <2>1, <2>2, <2>3 DEF PollInv
<1>15. ConnectInv'
  BY <1>1, <1>3, <1>9, <1>10 DEF CallInv, ConnectInv, Active
<1> QED
  BY <1>3, <1>9, <1>13, <1>14, <1>15 DEF ConsoleInv, CallInv

LEMMA ReportFlashInv ==
  ASSUME ConsoleInv, NEW t \in Threads, ReportFlash(t) PROVE ConsoleInv' /\ Len(stack') = Len(stack)
<1>1. Tower(stack) /\ ThreadInv /\ CallInv
  BY DEF ConsoleInv
<1>2. /\ thread[t].op = "flash" /\ thread' = [thread EXCEPT ![t] = Idle]
      /\ thread[t].outcome \in {"stopped", "recovery", "succeeded"}
  BY <1>1 DEF ReportFlash, Report, ThreadInv
<1>3. /\ ThreadInv' /\ thread'[t].op = "none"
      /\ \A u \in Threads \ {t} : thread'[u] = thread[u]
  BY <1>1, <1>2, Ready DEF ReportFlash, Report
<1> DEFINE id == thread[t].screen
           outcome == thread[t].outcome
<1>4. /\ DOMAIN stack' = 1 .. Len(stack)
      /\ stack' = [i \in 1 .. Len(stack) |->
                     IF i > 1 /\ stack[i].id = id THEN FlashReported(stack[i], outcome)
                     ELSE stack[i]]
  BY <1>1, StackElements DEF ReportFlash, WaitsFor
<1>5. PICK p \in 2 .. Len(stack) : Open(stack[p]) /\ stack[p].id = id
  BY <1>1, <1>2 DEF CallInv, WatchInv
<1>6. \A i \in 2 .. Len(stack) : stack[i].id = id => i = p
  BY <1>1, <1>5 DEF Tower
<1>7. /\ p \in 1 .. Len(stack) /\ stack[p].kind = "progress" /\ stack'[p] \in Screens
      /\ Same(stack[p], stack'[p]) /\ ~Open(stack'[p])
  <2>1. stack[p] \in Screens /\ p \in 1 .. Len(stack) /\ stack[p].kind = "progress"
    BY <1>1, <1>5, StackElements DEF Open
  <2>2. stack'[p] = FlashReported(stack[p], outcome)
    BY <1>4, <1>5, <2>1
  <2>3. /\ FlashReported(stack[p], outcome) \in Screens
        /\ FlashReported(stack[p], outcome).kind = "progress"
        /\ FlashReported(stack[p], outcome).id = stack[p].id
        /\ FlashReported(stack[p], outcome).result = outcome
    BY <1>2, <2>1, ReportedScreen
  <2> QED
    BY <1>2, <2>1, <2>2, <2>3 DEF Same, Open
<1>8. ASSUME NEW i \in 1 .. Len(stack), i # p
      PROVE  stack'[i] = stack[i]
  <2>1. ~(i > 1 /\ stack[i].id = id)
    BY <1>6, <1>8
  <2> QED
    BY <1>4, <2>1
<1>9. ASSUME NEW i \in 1 .. Len(stack)
      PROVE  /\ stack'[i] \in Screens /\ Same(stack[i], stack'[i])
             /\ stack[i].kind = "dashboard" => stack'[i].polling = stack[i].polling
  <2>1. CASE i = p
    BY <1>7, <2>1
  <2>2. CASE i # p
    BY <1>1, <1>8, <2>2, StackElements DEF Same
  <2> QED
    BY <2>1, <2>2
<1>10. stack' \in [1 .. Len(stack) -> Screens]
  BY <1>4, <1>9
<1>11. Tower(stack') /\ Len(stack') = Len(stack)
  BY <1>1, <1>9, <1>10, MappedTower
<1>12. ASSUME NEW i \in 2 .. Len(stack)
       PROVE  /\ stack'[i].kind = stack[i].kind /\ stack'[i].id = stack[i].id
              /\ Open(stack'[i]) <=> (Open(stack[i]) /\ stack[i].id # id)
              /\ stack[i].kind = "dashboard" => stack'[i] = stack[i]
  <2>1. i \in 1 .. Len(stack) /\ stack[i].kind # "port"
    BY <1>1, StackElements
  <2>2. CASE i = p
    BY <1>5, <1>7, <2>1, <2>2 DEF Same
  <2>3. CASE i # p
    BY <1>6, <1>8, <2>1, <2>3
  <2> QED
    BY <2>2, <2>3
<1>13. ASSUME NEW u \in Threads, NEW op \in {"connect", "poll", "flash"},
              thread'[u].op = op
       PROVE  u # t /\ thread'[u] = thread[u]
  BY <1>3, <1>13
<1>14. ASSUME NEW u \in Threads, thread[u].op # "flash"
       PROVE  thread'[u] = thread[u]
  BY <1>2, <1>3, <1>14
<1>15. WatchInv'
  <2>1. ASSUME NEW u \in Threads, thread'[u].op = "flash"
        PROVE  \E i \in 2 .. Len(stack') :
                 Open(stack'[i]) /\ stack'[i].id = thread'[u].screen
    <3>1. u # t /\ thread[u].op = "flash" /\ thread'[u] = thread[u]
      BY <1>13, <2>1
    <3>2. thread[u].screen # id
      BY <1>1, <1>2, <3>1 DEF CallInv, WatchInv
    <3>3. PICK i \in 2 .. Len(stack) : Open(stack[i]) /\ stack[i].id = thread[u].screen
      BY <1>1, <3>1 DEF CallInv, WatchInv
    <3> QED
      BY <1>11, <1>12, <3>1, <3>2, <3>3
  <2>2. ASSUME NEW i \in 2 .. Len(stack'), Open(stack'[i])
        PROVE  \E u \in Threads : thread'[u].op = "flash" /\ stack'[i].id = thread'[u].screen
    <3>1. Open(stack[i]) /\ stack[i].id # id /\ stack'[i].id = stack[i].id
      BY <1>11, <1>12, <2>2
    <3>2. PICK u \in Threads : thread[u].op = "flash" /\ stack[i].id = thread[u].screen
      BY <1>1, <1>11, <3>1 DEF CallInv, WatchInv
    <3> QED
      BY <1>3, <3>1, <3>2
  <2>3. ASSUME NEW u \in Threads, NEW v \in Threads,
               thread'[u].op = "flash", thread'[v].op = "flash",
               thread'[u].screen = thread'[v].screen
        PROVE  u = v
    BY <1>1, <1>13, <2>3 DEF CallInv, WatchInv
  <2> QED
    BY <2>1, <2>2, <2>3 DEF WatchInv
<1>16. PollInv'
  BY <1>1, <1>11, <1>12, <1>13, <1>14 DEF CallInv, PollInv
<1>17. ConnectInv'
  BY <1>1, <1>3, <1>11, <1>12 DEF CallInv, ConnectInv, Active
<1> QED
  BY <1>3, <1>11, <1>15, <1>16, <1>17 DEF ConsoleInv, CallInv

(* A worker gets the lock, is refused or comes back: no screen knows yet.  *)
LEMMA WorkInv ==
  ASSUME ConsoleInv, NEW t \in Threads,
         \/ BeginConnect(t) \/ BeginPoll(t) \/ BeginFlash(t)
         \/ EndConnect(t) \/ EndPoll(t) \/ EndFlash(t)
  PROVE  ConsoleInv'
<1>1. Tower(stack) /\ ThreadInv /\ CallInv
  BY DEF ConsoleInv
<1>2. /\ thread[t].op # "none" /\ UNCHANGED <<stack, exited>>
      /\ connected' \in BOOLEAN /\ approved' \in BOOLEAN
  BY <1>1 DEF ThreadInv, Waiting, Ended, session, BeginConnect, BeginPoll, BeginFlash,
              EndConnect, EndPoll, EndFlash
<1>3. \/ Running(t)
      \/ \E outcome \in {"connected", "failed", "fresh", "changed",
                         "stopped", "recovery", "succeeded"} :
           /\ Reporting(t, outcome)
           /\ thread[t].op = "flash" => outcome \in {"stopped", "recovery", "succeeded"}
  BY DEF Waiting, Ended, StopsAs, BeginConnect, BeginPoll, BeginFlash,
         EndConnect, EndPoll, EndFlash
<1>4. ThreadInv' /\ KeptCalls
  BY <1>1, <1>2, <1>3, MovedOn
<1>5. KeptStack
  <2>1. \A i \in 2 .. Len(stack) : Alike(stack[i], stack[i])
    BY DEF Alike, Same
  <2> QED
    BY <1>1, <1>2, <2>1 DEF KeptStack, Tower
<1>6. CallInv'
  BY <1>1, <1>4, <1>5, KeptCallInv
<1> QED
  BY <1>1, <1>2, <1>4, <1>6 DEF ConsoleInv

LEMMA ConsoleStep == ASSUME ConsoleInv, [Next]_vars PROVE ConsoleInv'
<1>1. CASE UNCHANGED vars
  BY <1>1, Unmoved DEF vars, session, ConsoleInv, ThreadInv
<1>2. CASE Keys
  <2>1. CASE Connect
    BY <2>1, ConnectStepInv
  <2>2. CASE Refresh
    BY <2>2, RefreshInv
  <2>3. CASE Upgrade
    BY <2>3, UpgradeInv
  <2>4. CASE Back
    BY <2>4, BackInv
  <2>5. CASE Reload
    BY <2>5, ReloadInv
  <2>6. CASE Inspect
    BY <2>6, InspectInv
  <2>7. CASE StartFlash
    BY <2>7, StartFlashInv
  <2>8. CASE ConfirmationFails
    BY <2>8, ConfirmationFailsInv
  <2>9. CASE Quit
    BY <2>9, LeaveInv DEF Quit
  <2>10. CASE RefuseToLeave
    BY <2>10, RefuseToLeaveInv
  <2>11. CASE ReturnDashboard
    BY <2>11, ReturnDashboardInv
  <2>12. CASE SafeQuit
    BY <2>12, RefuseToLeaveInv, LeaveInv DEF SafeQuit
  <2>13. CASE InheritedQuit
    BY <2>13, LeaveInv DEF InheritedQuit
  <2> QED
    BY <1>2, <2>1, <2>2, <2>3, <2>4, <2>5, <2>6, <2>7, <2>8, <2>9, <2>10, <2>11, <2>12,
       <2>13 DEF Keys
<1>3. ASSUME NEW t \in Threads, Work(t) PROVE ConsoleInv'
  BY <1>3, WorkInv, ReportConnectInv, ReportPollInv, ReportFlashInv DEF Work
<1> QED
  BY <1>1, <1>2, <1>3 DEF Next, Gone
-------------------------------------------------------------------------------
(* What follows.                                                           *)

(* The stack of screens is sound, and screens and workers match.           *)
THEOREM ConsoleInvariant == Spec => []ConsoleInv
<1>1. Init => ConsoleInv
  BY ConsoleInit
<1>2. ConsoleInv /\ [Next]_vars => ConsoleInv'
  BY ConsoleStep
<1> QED
  BY <1>1, <1>2, PTL DEF Spec

(* Every screen and call is of its kind: in particular what flash() raises *)
(* reaches no screen.                                                      *)
THEOREM ScreensAreOfTheirKind == Spec => []TypeOK
<1>1. ConsoleInv => TypeOK
  <2> SUFFICES ASSUME ConsoleInv PROVE TypeOK
    OBVIOUS
  <2>1. \A i \in 1 .. Len(stack) : stack[i] \in Screens
    BY StackElements DEF ConsoleInv
  <2> QED
    BY <2>1 DEF TypeOK, ConsoleInv, ThreadInv
<1> QED
  BY <1>1, ConsoleInvariant, PTL

(* Every flash() under way has its progress screen, which says so, and no  *)
(* other progress screen says so.                                          *)
THEOREM ProgressIsTrue == Spec => []FlashIsWatched
<1>1. ConsoleInv => FlashIsWatched
  <2> SUFFICES ASSUME ConsoleInv PROVE FlashIsWatched
    OBVIOUS
  <2>1. Tower(stack) /\ WatchInv
    BY DEF ConsoleInv, CallInv
  <2>2. \A i : i \in OfKind("progress") /\ stack[i].result = "none" <=>
                 i \in 2 .. Len(stack) /\ Open(stack[i])
    <3>1. ~Open(stack[1]) /\ stack[1].kind # "progress"
      BY <2>1 DEF Tower, Port, Open
    <3>2. \A i \in 1 .. Len(stack) : i = 1 \/ i \in 2 .. Len(stack)
      OBVIOUS
    <3> QED
      BY <3>1, <3>2 DEF OfKind, Open
  <2>3. ASSUME NEW id PROVE id \in Calls("flash") <=>
          \E i \in 2 .. Len(stack) : Open(stack[i]) /\ stack[i].id = id
    BY <2>1 DEF WatchInv, Calls
  <2>4. ASSUME NEW id
        PROVE  id \in {stack[i].id : i \in {j \in OfKind("progress") :
                                              stack[j].result = "none"}}
               <=> \E i \in 2 .. Len(stack) : Open(stack[i]) /\ stack[i].id = id
    BY <2>2
  <2> QED
    BY <2>3, <2>4 DEF FlashIsWatched
<1> QED
  BY <1>1, ConsoleInvariant, PTL

(* A dashboard has _poll_inflight set exactly while one worker polls for   *)
(* it.                                                                     *)
THEOREM MonitorIsNeverStuck == Spec => []InflightIsReal
<1>1. ConsoleInv => InflightIsReal
  <2> SUFFICES ASSUME ConsoleInv, NEW i \in OfKind("dashboard")
               PROVE  IF stack[i].inflight
                      THEN \E t \in Threads :
                             {u \in Threads : thread[u].op = "poll"
                                              /\ thread[u].screen = stack[i].id} = {t}
                      ELSE {u \in Threads : thread[u].op = "poll"
                                            /\ thread[u].screen = stack[i].id} = {}
    BY DEF InflightIsReal
  <2>1. Tower(stack) /\ PollInv
    BY DEF ConsoleInv, CallInv
  <2>2. i \in 2 .. Len(stack) /\ stack[i].kind = "dashboard"
    BY <2>1 DEF OfKind, Tower, Port
  <2>3. CASE stack[i].inflight
    <3>1. PICK t \in Threads : thread[t].op = "poll" /\ stack[i].id = thread[t].screen
      BY <2>1, <2>2, <2>3 DEF PollInv
    <3>2. {u \in Threads : thread[u].op = "poll" /\ thread[u].screen = stack[i].id} = {t}
      BY <2>1, <3>1 DEF PollInv
    <3> QED
      BY <2>3, <3>2
  <2>4. CASE ~stack[i].inflight
    BY <2>1, <2>2, <2>4 DEF PollInv
  <2> QED
    BY <2>3, <2>4
<1> QED
  BY <1>1, ConsoleInvariant, PTL

(* A worker that is idle stays so, unless a key starts a call.             *)
LEMMA IdleStays ==
  ASSUME ThreadInv, NEW t \in Threads, NEW u \in Threads, Work(u), thread[t] = Idle
  PROVE  thread'[t] = Idle
<1>1. thread[u] # Idle
  <2>1. thread[u].op \in {"connect", "poll", "flash"}
    BY DEF Work, Waiting, Ended, Report, BeginConnect, BeginPoll, BeginFlash,
           EndConnect, EndPoll, EndFlash, ReportConnect, ReportPoll, ReportFlash
  <2> QED
    BY <2>1 DEF Idle
<1>2. \/ Running(u) \/ (\E outcome : Reporting(u, outcome))
      \/ thread' = [thread EXCEPT ![u] = Idle]
  BY DEF Work, Report, BeginConnect, BeginPoll, BeginFlash,
         EndConnect, EndPoll, EndFlash, ReportConnect, ReportPoll, ReportFlash
<1>3. u # t /\ thread \in [Threads -> CallStates]
  BY <1>1 DEF ThreadInv
<1> QED
  BY <1>2, <1>3 DEF Running, Reporting

(* While the firmware or the progress screen is on top nobody begins to    *)
(* poll: no covered dashboard has its timer running.                       *)
THEOREM NoPollDuringUpgrade == Spec => FirmwareUndisturbed
<1>1. ASSUME ConsoleInv, [Next]_vars, Top.kind \in {"firmware", "progress"},
             NEW t \in Threads, thread[t] = Idle
      PROVE  thread'[t].op # "poll"
  <2>1. Tower(stack) /\ ThreadInv
    BY <1>1 DEF ConsoleInv
  <2>2. thread[t].op = "none" /\ thread \in [Threads -> CallStates]
    BY <1>1, <2>1 DEF Idle, ThreadInv
  <2>3. CASE Refresh
    <3>1. PICK i \in 2 .. Len(stack) :
            stack[i].kind = "dashboard" /\ (i = Len(stack) \/ stack[i].polling)
      BY <2>3 DEF Refresh
    <3>2. i # Len(stack)
      BY <1>1, <2>1, <3>1, TopScreen
    <3> QED
      BY <2>1, <3>1, <3>2 DEF Tower
  <2>4. CASE \E op \in {"connect", "flash"}, id \in FreeIds : Start(op, id)
    <3>1. PICK op \in {"connect", "flash"}, id \in FreeIds, u \in Threads :
            thread' = [thread EXCEPT ![u] = Call(op, id)]
      BY <2>4 DEF Start
    <3>2. Call(op, id).op # "poll"
      BY DEF Call
    <3> QED
      BY <2>2, <3>1, <3>2
  <2>5. CASE UNCHANGED thread
    BY <2>2, <2>5
  <2>6. ASSUME NEW u \in Threads, Work(u) PROVE thread'[t].op # "poll"
    BY <1>1, <2>1, <2>6, IdleStays DEF Idle
  <2>7. Keys => \/ Refresh \/ UNCHANGED thread
                \/ \E op \in {"connect", "flash"}, id \in FreeIds : Start(op, id)
    BY DEF Keys, Connect, Upgrade, Back, Reload, Inspect, StartFlash, ConfirmationFails,
           Quit, Leave, RefuseToLeave, ReturnDashboard, SafeQuit, InheritedQuit
  <2> QED
    BY <1>1, <2>3, <2>4, <2>5, <2>6, <2>7 DEF Next, Gone, vars
<1>2. ConsoleInv /\ [Next]_vars =>
        (Top.kind \in {"firmware", "progress"} =>
           \A t \in Threads : thread[t] = Idle => thread'[t].op # "poll")
  BY <1>1
<1> QED
  BY <1>2, ConsoleInvariant, PTL DEF Spec, FirmwareUndisturbed

(* A progress screen is left for battery details only.                     *)
THEOREM EnterReturnsToDetails == Spec => ReturnsToDetails
<1>1. ASSUME ConsoleInv, [Next]_vars, Top.kind = "progress", Len(stack') < Len(stack)
      PROVE  Last(stack').kind = "dashboard"
  <2>1. Tower(stack) /\ ThreadInv /\ Len(stack) \in Nat
    BY <1>1, TopScreen DEF ConsoleInv
  <2>2. stack' # stack
    BY <1>1, <2>1
  <2>3. ~RefuseToLeave /\ ~Refresh
    BY <1>1, <2>1, RefuseToLeaveInv, RefreshInv
  <2>4. \A t \in Threads : ~ReportConnect(t) /\ ~ReportPoll(t) /\ ~ReportFlash(t)
    <3>1. \A t \in Threads : ~ReportPoll(t) /\ ~ReportFlash(t)
      BY <1>1, <2>1, ReportPollInv, ReportFlashInv
    <3>2. \A t \in Threads : ~ReportConnect(t)
      <4>1. ASSUME NEW t \in Threads, ReportConnect(t) PROVE FALSE
        <5>1. Tower(stack') /\ Len(stack') >= Len(stack)
          BY <1>1, <4>1, ReportConnectInv DEF ConsoleInv
        <5>2. Len(stack') \in Nat
          BY <5>1 DEF Tower
        <5> QED
          BY <1>1, <2>1, <5>1, <5>2
      <4> QED
        BY <4>1
    <3> QED
      BY <3>1, <3>2
  <2>5. \A t \in Threads : ~Work(t)
    BY <2>2, <2>4 DEF Work, Waiting, Ended, BeginConnect, BeginPoll, BeginFlash,
                      EndConnect, EndPoll, EndFlash
  <2>6. ReturnDashboard
    BY <1>1, <2>2, <2>3, <2>5
       DEF Next, Gone, vars, Keys, At, Connect, Upgrade, Back, Reload, Inspect, StartFlash,
           ConfirmationFails, Quit, Leave, SafeQuit, InheritedQuit
  <2>7. stack' = ReturnFrom(stack)
    BY <2>3, <2>6 DEF ReturnDashboard, RefuseToLeave
  <2> QED
    BY <1>1, <2>1, <2>7, FinishedReturn DEF Last
<1>2. ConsoleInv /\ [Next]_vars =>
        (Top.kind = "progress" /\ Len(stack') < Len(stack) =>
           Last(stack').kind = "dashboard")
  BY <1>1
<1> QED
  BY <1>2, ConsoleInvariant, PTL DEF Spec, ReturnsToDetails

(* By "q" and Ctrl-C the application is left during a flash() only from a *)
(* screen that covers its progress screen.                                 *)
THEOREM LeftOnlyFromAbove == Spec => ExitIsCovered
<1>1. ASSUME ConsoleInv, [Next]_vars, exited', ~exited, Quit \/ SafeQuit,
             NEW t \in Threads, thread[t].op = "flash"
      PROVE  \E i \in 2 .. Len(stack) - 1 :
               stack[i].kind = "progress" /\ stack[i].result = "none"
                 /\ stack[i].id = thread[t].screen
  <2>1. Tower(stack) /\ WatchInv /\ exited' # exited
    BY <1>1 DEF ConsoleInv, CallInv
  <2>2. ~Open(Top)
    BY <1>1, <2>1 DEF Quit, At, SafeQuit, HoldsApplication, RefuseToLeave, Open
  <2>3. PICK i \in 2 .. Len(stack) : Open(stack[i]) /\ stack[i].id = thread[t].screen
    BY <1>1, <2>1 DEF WatchInv
  <2>4. i # Len(stack) /\ Len(stack) \in Nat
    BY <2>1, <2>2, <2>3, TopScreen
  <2> QED
    BY <2>3, <2>4 DEF Open
<1>2. ConsoleInv /\ [Next]_vars =>
        (exited' /\ ~exited /\ (Quit \/ SafeQuit) =>
           \A t \in Threads : thread[t].op = "flash" =>
             \E i \in 2 .. Len(stack) - 1 :
               stack[i].kind = "progress" /\ stack[i].result = "none"
                 /\ stack[i].id = thread[t].screen)
  BY <1>1
<1> QED
  BY <1>2, ConsoleInvariant, PTL DEF Spec, ExitIsCovered
================================================================================

------------------------ MODULE CaptureSessionProofs ------------------------
(***************************************************************************)
(* Proofs about CaptureSession, for any number of samples and any runners. *)
(*                                                                         *)
(* What a command can have going follows from its runner: Going.  What of  *)
(* it nobody has asked to end yet follows, as long as nothing has slipped  *)
(* from the command, from how far the sample has come: Asking says so,     *)
(* place by place.  Sound adds to the samples kept what is known of the    *)
(* present one, Counted how many there are at each place.                  *)
(***************************************************************************)
EXTENDS CaptureSession, TLAPS

Inside  == {"attach", "connect", "read", "http3", "clean"}
Waiting == {"enter", "arm", "settle", "sample"} \cup Inside

Placed ==
    /\ pc = "arm" => Is("android") /\ setup.reset
    /\ pc = "settle" => Is("safari")
    /\ pc = "attach" => Is("chrome") \/ Is("android")
    /\ pc = "connect" => ~Is("safari")

Going ==
    /\ Is("chrome") => on \subseteq {"playwright", "browser", "launcher"}
    /\ Is("android") => on \subseteq {"playwright", "debug", "browser", "forward", "page"}
    /\ Is("android") /\ pc = "enter" => on = {}
    /\ Preserving => on \subseteq {"playwright", "forward", "page"}
    /\ Is("safari") => on \subseteq {"driver", "session"}
    /\ Is("ios") => on \subseteq {"browser", "session"}

Asking ==
    slips = {} =>
        /\ Is("chrome") => on \subseteq asked \cup {"playwright", "browser"}
        /\ Is("chrome") /\ pc \notin Inside => on \subseteq asked \cup {"playwright"}
        /\ Is("android") /\ pc \notin Inside \ {"attach"} =>
               on \subseteq asked \cup {"playwright", "debug", "browser"}
        /\ Is("android") /\ (pc = "sample" \/ pc = "arm" \/ (pc = "judge" /\ ~failing)) =>
               on \subseteq asked \cup {"playwright", "debug"}
        /\ ~PerAttempt /\ pc \in {"enter", "done"} => on \subseteq asked
        /\ Is("safari") /\ pc \in {"settle", "sample"} => on \subseteq {"driver"}
        /\ Is("safari") /\ pc \in {"enter", "judge", "done"} => on = {}
        /\ Is("ios") /\ pc \notin Inside => on \subseteq {"browser"}

Sound ==
    /\ SamplesAreSound
    /\ pc \in Inside /\ ~Preserving /\ ~Is("ios") => ~used
    /\ pc = "clean" /\ ~failing /\ ~PerAttempt => shown

Counted ==
    /\ Len(kept) <= Samples
    /\ attempt <= Attempts
    /\ pc \in Waiting => Len(kept) < Samples
    /\ pc \in {"judge", "leave"} /\ failing => Len(kept) < Samples
    /\ ~PerAttempt /\ pc \in {"enter", "arm"} => Len(kept) = 0
    /\ ~PerAttempt /\ pc = "leave" => IF failing THEN attempt = Attempts
                                                 ELSE Len(kept) = Samples

IInv == TypeOK /\ Placed /\ Going /\ Asking /\ Sound /\ Counted
-----------------------------------------------------------------------------
USE SamplesAssumption, SetupsAssumption

LEMMA Runners ==
    ASSUME TypeOK
    PROVE  /\ setup \in Setup
           /\ setup.runner \in {"chrome", "android", "safari", "ios"}
           /\ setup.reset \in BOOLEAN /\ setup.http3 \in BOOLEAN
           /\ ~PerAttempt => setup.http3
           /\ PerAttempt <=> (Is("safari") \/ Is("ios"))
           /\ Attempts \in 1..3
BY DEF TypeOK, Setup, PerAttempt, Is, Attempts

LEMMA Appended ==
    ASSUME NEW S, NEW s \in Seq(S), NEW e \in S
    PROVE  Append(s, e) \in Seq(S)
OBVIOUS

LEMMA InitHolds == Init => IInv
<1> SUFFICES ASSUME Init PROVE IInv
  OBVIOUS
<1>1. TypeOK
  <2>1. kept \in Seq([http3 : BOOLEAN, fresh : BOOLEAN])
    BY DEF Init
  <2>2. attempt \in 1..3 /\ tries \in 0..MaxTries
    BY DEF Init, MaxTries
  <2> QED BY <2>1, <2>2 DEF Init, TypeOK
<1> QED
  BY <1>1, Runners DEF Init, IInv, Placed, Going, Asking, Sound, SamplesAreSound, Counted, Waiting, Inside

LEMMA TypeHolds == IInv /\ Next => TypeOK'
<1> SUFFICES ASSUME IInv, Next PROVE TypeOK'
  OBVIOUS
<1> USE Runners DEF IInv, Is, PerAttempt, Preserving, Resetting, Attempts, work, ends, vars, GoTo, Raise, Keeps, Start, Slip, Ask, Kill, Again, Over, AfterSample, Answering,
        EnterChrome, EnterAndroid, EnterSafari, EnterIos, LaunchChrome, LaunchAndroid, LaunchSafari, LaunchIos,
        WaitForPort, ForwardPort, OpenUrl, StopProcess, CleanChrome, CleanAndroid, CleanSafari, CleanIos,
        LeavePlaywright, LeaveDriver
<1>1. CASE Refuse
  BY <1>1 DEF Refuse, TypeOK, MaxTries, Resources, Slips, Sample
<1>2. CASE Enter
  BY <1>2 DEF Enter, TypeOK, MaxTries, Resources, Slips, Sample
<1>3. CASE Arm
  BY <1>3 DEF Arm, TypeOK, MaxTries, Resources, Slips, Sample
<1>4. CASE Settle
  BY <1>4 DEF Settle, TypeOK, MaxTries, Resources, Slips, Sample
<1>5. CASE Launch
  <2>1. UNCHANGED <<setup, kept, attempt>> /\ tries' = 0 /\ shown' = FALSE
    BY <1>5 DEF Launch
  <2>2. used' \in BOOLEAN /\ failing' \in BOOLEAN
    BY <1>5, Zenon DEF Launch, TypeOK
  <2>3. on' \subseteq Resources /\ asked' \subseteq Resources /\ slips' \subseteq Slips
    BY <1>5 DEF Launch, TypeOK, Resources
  <2>7. alive' \in BOOLEAN
    BY <1>5, Zenon DEF Launch
  <2>4. pc' \in {"attach", "read", "connect"}
    BY <1>5 DEF Launch
  <2>5. tries' \in 0..MaxTries
    BY <2>1 DEF MaxTries
  <2>6. shown' \in BOOLEAN
    BY <2>1
  <2> QED BY <2>1, <2>2, <2>3, <2>4, <2>5, <2>6, <2>7 DEF TypeOK
<1>6. CASE LaunchFails
  BY <1>6 DEF LaunchFails, TypeOK, MaxTries, Resources, Slips, Sample
<1>7. CASE Attach
  BY <1>7 DEF Attach, TypeOK, MaxTries, Resources, Slips, Sample
<1>8. CASE Connect
  BY <1>8 DEF Connect, TypeOK, MaxTries, Resources, Slips, Sample
<1>9. CASE Read
  BY <1>9 DEF Read, TypeOK, MaxTries, Resources, Slips, Sample
<1>10. CASE Try
  <2>1. UNCHANGED <<setup, kept, attempt, used, alive, slips>>
    BY <1>10 DEF Try
  <2>4. on' \subseteq Resources /\ asked' \subseteq Resources
    BY <1>10 DEF Try, TypeOK, Resources
  <2>2. shown' \in BOOLEAN /\ failing' \in BOOLEAN /\ pc' \in {"http3", "clean"}
    BY <1>10 DEF Try, TypeOK
  <2>3. tries' \in 0..MaxTries
    BY <1>10 DEF Try, TypeOK, MaxTries
  <2> QED BY <2>1, <2>2, <2>3, <2>4 DEF TypeOK
<1>11. CASE TryFails
  BY <1>11 DEF TryFails, TypeOK, MaxTries, Resources, Slips, Sample
<1>12. CASE NoHttp3
  BY <1>12 DEF NoHttp3, TypeOK, MaxTries, Resources, Slips, Sample
<1>13. CASE Clean
  <2>1. UNCHANGED <<setup, tries, shown>> /\ used' = TRUE /\ pc' \in {"leave", "judge"}
    BY <1>13 DEF Clean
  <2>0. failing' \in BOOLEAN
    BY <1>13, Zenon DEF Clean, TypeOK
  <2>2. attempt' \in 1..3
    BY <1>13, <2>0 DEF Clean, TypeOK
  <2>3. on' \subseteq Resources /\ asked' \subseteq Resources /\ slips' \subseteq Slips
    BY <1>13 DEF Clean, TypeOK, Resources, Slips
  <2>6. alive' \in BOOLEAN
    BY <1>13 DEF Clean
  <2>4. Sample \in [http3 : BOOLEAN, fresh : BOOLEAN]
    BY DEF TypeOK, Sample
  <2>5. kept' \in Seq([http3 : BOOLEAN, fresh : BOOLEAN])
    <3>1. kept' = kept \/ kept' = Append(kept, Sample)
      BY <1>13 DEF Clean
    <3>2. kept \in Seq([http3 : BOOLEAN, fresh : BOOLEAN])
      BY DEF TypeOK
    <3>3. Append(kept, Sample) \in Seq([http3 : BOOLEAN, fresh : BOOLEAN])
      BY <3>2, <2>4, Appended
    <3> QED BY <3>1, <3>2, <3>3
  <2> QED BY <2>0, <2>1, <2>2, <2>3, <2>5, <2>6 DEF TypeOK
<1>14. CASE NextSample
  BY <1>14 DEF NextSample, TypeOK, MaxTries, Resources, Slips, Sample
<1>15. CASE Retry
  <2>1. UNCHANGED <<setup, kept, tries, shown, used, alive, on, asked, slips>>
    BY <1>15 DEF Retry
  <2>2. attempt' \in 1..3 /\ failing' = FALSE /\ pc' \in {"enter", "sample"}
    BY <1>15 DEF Retry, TypeOK
  <2> QED BY <2>1, <2>2 DEF TypeOK
<1>16. CASE GiveUp
  BY <1>16 DEF GiveUp, TypeOK, MaxTries, Resources, Slips, Sample
<1>17. CASE Leave
  BY <1>17 DEF Leave, TypeOK, MaxTries, Resources, Slips, Sample
<1>18. CASE BrowserDies
  BY <1>18 DEF BrowserDies, TypeOK, MaxTries, Resources, Slips, Sample
<1> QED BY <1>1, <1>2, <1>3, <1>4, <1>5, <1>6, <1>7, <1>8, <1>9, <1>10, <1>11, <1>12, <1>13, <1>14, <1>15, <1>16, <1>17, <1>18 DEF Next, Step

LEMMA PlaceHolds == IInv /\ Next => Placed'
<1> SUFFICES ASSUME IInv, Next PROVE Placed'
  OBVIOUS
<1> USE Runners DEF IInv, Is, PerAttempt, Preserving, Resetting, Attempts, work, ends, vars, GoTo, Raise, Keeps, Start, Slip, Ask, Kill, Again, Over, AfterSample, Answering,
        EnterChrome, EnterAndroid, EnterSafari, EnterIos, LaunchChrome, LaunchAndroid, LaunchSafari, LaunchIos,
        WaitForPort, ForwardPort, OpenUrl, StopProcess, CleanChrome, CleanAndroid, CleanSafari, CleanIos,
        LeavePlaywright, LeaveDriver
<1>1. CASE Refuse
  BY <1>1 DEF Refuse, Placed
<1>2. CASE Enter
  BY <1>2 DEF Enter, Placed
<1>3. CASE Arm
  BY <1>3 DEF Arm, Placed
<1>4. CASE Settle
  BY <1>4 DEF Settle, Placed
<1>5. CASE Launch
  BY <1>5 DEF Launch, Placed
<1>6. CASE LaunchFails
  BY <1>6 DEF LaunchFails, Placed
<1>7. CASE Attach
  BY <1>7 DEF Attach, Placed
<1>8. CASE Connect
  BY <1>8 DEF Connect, Placed
<1>9. CASE Read
  BY <1>9 DEF Read, Placed
<1>10. CASE Try
  BY <1>10 DEF Try, Placed
<1>11. CASE TryFails
  BY <1>11 DEF TryFails, Placed
<1>12. CASE NoHttp3
  BY <1>12 DEF NoHttp3, Placed
<1>13. CASE Clean
  BY <1>13 DEF Clean, Placed
<1>14. CASE NextSample
  BY <1>14 DEF NextSample, Placed
<1>15. CASE Retry
  BY <1>15 DEF Retry, Placed
<1>16. CASE GiveUp
  BY <1>16 DEF GiveUp, Placed
<1>17. CASE Leave
  BY <1>17 DEF Leave, Placed
<1>18. CASE BrowserDies
  BY <1>18 DEF BrowserDies, Placed
<1> QED BY <1>1, <1>2, <1>3, <1>4, <1>5, <1>6, <1>7, <1>8, <1>9, <1>10, <1>11, <1>12, <1>13, <1>14, <1>15, <1>16, <1>17, <1>18 DEF Next, Step

LEMMA GoHolds == IInv /\ Next => Going'
<1> SUFFICES ASSUME IInv, Next PROVE Going'
  OBVIOUS
<1> USE Runners DEF IInv, Is, PerAttempt, Preserving, Resetting, Attempts, work, ends, vars, GoTo, Raise, Keeps, Start, Slip, Ask, Kill, Again, Over, AfterSample, Answering,
        EnterChrome, EnterAndroid, EnterSafari, EnterIos, LaunchChrome, LaunchAndroid, LaunchSafari, LaunchIos,
        WaitForPort, ForwardPort, OpenUrl, StopProcess, CleanChrome, CleanAndroid, CleanSafari, CleanIos,
        LeavePlaywright, LeaveDriver
<1>1. CASE Refuse
  BY <1>1 DEF Refuse, Going, Placed, Inside
<1>2. CASE Enter
  BY <1>2 DEF Enter, Going, Placed, Inside
<1>3. CASE Arm
  BY <1>3 DEF Arm, Going, Placed, Inside
<1>4. CASE Settle
  BY <1>4 DEF Settle, Going, Placed, Inside
<1>5. CASE Launch
  BY <1>5 DEF Launch, Going, Placed, Inside
<1>6. CASE LaunchFails
  BY <1>6 DEF LaunchFails, Going, Placed, Inside
<1>7. CASE Attach
  BY <1>7 DEF Attach, Going, Placed, Inside
<1>8. CASE Connect
  BY <1>8 DEF Connect, Going, Placed, Inside
<1>9. CASE Read
  BY <1>9 DEF Read, Going, Placed, Inside
<1>10. CASE Try
  BY <1>10 DEF Try, Going, Placed, Inside
<1>11. CASE TryFails
  BY <1>11 DEF TryFails, Going, Placed, Inside
<1>12. CASE NoHttp3
  BY <1>12 DEF NoHttp3, Going, Placed, Inside
<1>13. CASE Clean
  BY <1>13 DEF Clean, Going, Placed, Inside
<1>14. CASE NextSample
  BY <1>14 DEF NextSample, Going, Placed, Inside
<1>15. CASE Retry
  BY <1>15 DEF Retry, Going, Placed, Inside
<1>16. CASE GiveUp
  BY <1>16 DEF GiveUp, Going, Placed, Inside
<1>17. CASE Leave
  BY <1>17 DEF Leave, Going, Placed, Inside
<1>18. CASE BrowserDies
  BY <1>18 DEF BrowserDies, Going, Placed, Inside
<1> QED BY <1>1, <1>2, <1>3, <1>4, <1>5, <1>6, <1>7, <1>8, <1>9, <1>10, <1>11, <1>12, <1>13, <1>14, <1>15, <1>16, <1>17, <1>18 DEF Next, Step

LEMMA AskHolds == IInv /\ Next => Asking'
<1> SUFFICES ASSUME IInv, Next PROVE Asking'
  OBVIOUS
<1> USE Runners DEF IInv, Is, PerAttempt, Preserving, Resetting, Attempts, work, ends, vars, GoTo, Raise, Keeps, Start, Slip, Ask, Kill, Again, Over, AfterSample, Answering,
        EnterChrome, EnterAndroid, EnterSafari, EnterIos, LaunchChrome, LaunchAndroid, LaunchSafari, LaunchIos,
        WaitForPort, ForwardPort, OpenUrl, StopProcess, CleanChrome, CleanAndroid, CleanSafari, CleanIos,
        LeavePlaywright, LeaveDriver
<1>1. CASE Refuse
  BY <1>1 DEF Refuse, Asking, Going, Placed, Inside
<1>2. CASE Enter
  BY <1>2 DEF Enter, Asking, Going, Placed, Inside
<1>3. CASE Arm
  BY <1>3 DEF Arm, Asking, Going, Placed, Inside
<1>4. CASE Settle
  BY <1>4 DEF Settle, Asking, Going, Placed, Inside
<1>5. CASE Launch
  BY <1>5 DEF Launch, Asking, Going, Placed, Inside
<1>6. CASE LaunchFails
  BY <1>6 DEF LaunchFails, Asking, Going, Placed, Inside
<1>7. CASE Attach
  BY <1>7 DEF Attach, Asking, Going, Placed, Inside
<1>8. CASE Connect
  BY <1>8 DEF Connect, Asking, Going, Placed, Inside
<1>9. CASE Read
  BY <1>9 DEF Read, Asking, Going, Placed, Inside
<1>10. CASE Try
  BY <1>10 DEF Try, Asking, Going, Placed, Inside
<1>11. CASE TryFails
  BY <1>11 DEF TryFails, Asking, Going, Placed, Inside
<1>12. CASE NoHttp3
  BY <1>12 DEF NoHttp3, Asking, Going, Placed, Inside
<1>13. CASE Clean
  <2>0. UNCHANGED setup /\ pc = "clean" /\ pc' = AfterSample
    BY <1>13 DEF Clean
  <2>1. CASE Is("chrome")
    <3>1. StopProcess /\ pc' = "judge"
      BY <1>13, <2>0, <2>1 DEF Clean
    <3>2. CASE alive
      BY <2>0, <2>1, <3>1, <3>2 DEF Asking, Inside
    <3>3. CASE ~alive /\ "browser" \in on
      BY <3>1, <3>3 DEF Asking
    <3>4. CASE ~alive /\ "browser" \notin on
      BY <2>0, <2>1, <3>1, <3>4 DEF Asking, Inside
    <3> QED BY <3>2, <3>3, <3>4
  <2>2. CASE Is("android")
    <3>1. pc' = "judge" /\ failing' = failing /\ slips' = slips
      BY <1>13, <2>0, <2>2 DEF Clean
    <3>2. on' \subseteq on /\ asked \subseteq asked'
      BY <1>13, <2>2 DEF Clean
    <3>3. {"page", "forward"} \subseteq asked' /\ (setup.reset => "browser" \in asked')
      BY <1>13, <2>2 DEF Clean
    <3>4. on \subseteq {"playwright", "debug", "browser", "forward", "page"}
          /\ (~setup.reset => "browser" \notin on)
      BY <2>2 DEF Going
    <3> QED BY <2>0, <2>2, <3>1, <3>2, <3>3, <3>4 DEF Asking, Inside
  <2>3. CASE Is("safari")
    BY <2>0, <2>3 DEF Asking, Inside
  <2>4. CASE Is("ios")
    BY <1>13, <2>0, <2>4 DEF Clean, Asking, Going, Inside
  <2> QED BY <2>1, <2>2, <2>3, <2>4
<1>14. CASE NextSample
  BY <1>14 DEF NextSample, Asking, Going, Placed, Inside
<1>15. CASE Retry
  <2>1. UNCHANGED <<setup, on, asked, slips>> /\ pc = "judge" /\ pc' = Again
    BY <1>15 DEF Retry
  <2>2. ~Is("android")
    BY <1>15 DEF Retry, TypeOK
  <2>3. CASE Is("chrome")
    BY <2>1, <2>3 DEF Asking, Inside
  <2>4. CASE Is("safari")
    BY <2>1, <2>4 DEF Asking, Inside
  <2>5. CASE Is("ios")
    BY <2>1, <2>5 DEF Asking, Inside
  <2> QED BY <2>2, <2>3, <2>4, <2>5
<1>16. CASE GiveUp
  BY <1>16 DEF GiveUp, Asking, Going, Placed, Inside
<1>17. CASE Leave
  BY <1>17 DEF Leave, Asking, Going, Placed, Inside
<1>18. CASE BrowserDies
  BY <1>18 DEF BrowserDies, Asking, Going, Placed, Inside
<1> QED BY <1>1, <1>2, <1>3, <1>4, <1>5, <1>6, <1>7, <1>8, <1>9, <1>10, <1>11, <1>12, <1>13, <1>14, <1>15, <1>16, <1>17, <1>18 DEF Next, Step

LEMMA SampleHolds == IInv /\ Next => Sound'
<1> SUFFICES ASSUME IInv, Next PROVE Sound'
  OBVIOUS
<1> USE Runners DEF IInv, Is, PerAttempt, Preserving, Resetting, Attempts, work, ends, vars, GoTo, Raise, Keeps, Start, Slip, Ask, Kill, Again, Over, AfterSample, Answering,
        EnterChrome, EnterAndroid, EnterSafari, EnterIos, LaunchChrome, LaunchAndroid, LaunchSafari, LaunchIos,
        WaitForPort, ForwardPort, OpenUrl, StopProcess, CleanChrome, CleanAndroid, CleanSafari, CleanIos,
        LeavePlaywright, LeaveDriver
<1>1. CASE Refuse
  BY <1>1 DEF Refuse, Sound, SamplesAreSound, Inside, Sample
<1>2. CASE Enter
  BY <1>2 DEF Enter, Sound, SamplesAreSound, Inside, Sample
<1>3. CASE Arm
  BY <1>3 DEF Arm, Sound, SamplesAreSound, Inside, Sample
<1>4. CASE Settle
  BY <1>4 DEF Settle, Sound, SamplesAreSound, Inside, Sample
<1>5. CASE Launch
  BY <1>5 DEF Launch, Sound, SamplesAreSound, Inside, Sample
<1>6. CASE LaunchFails
  BY <1>6 DEF LaunchFails, Sound, SamplesAreSound, Inside, Sample
<1>7. CASE Attach
  BY <1>7 DEF Attach, Sound, SamplesAreSound, Inside, Sample
<1>8. CASE Connect
  BY <1>8 DEF Connect, Sound, SamplesAreSound, Inside, Sample
<1>9. CASE Read
  BY <1>9 DEF Read, Sound, SamplesAreSound, Inside, Sample
<1>10. CASE Try
  BY <1>10 DEF Try, Sound, SamplesAreSound, Inside, Sample
<1>11. CASE TryFails
  BY <1>11 DEF TryFails, Sound, SamplesAreSound, Inside, Sample
<1>12. CASE NoHttp3
  BY <1>12 DEF NoHttp3, Sound, SamplesAreSound, Inside, Sample
<1>13. CASE Clean
  <2>0. UNCHANGED setup /\ pc' \notin Inside /\ pc = "clean"
    BY <1>13 DEF Clean, Inside
  <2>1. CASE kept' = kept
    BY <2>0, <2>1 DEF Sound, SamplesAreSound, Inside
  <2>2. CASE kept' = Append(kept, Sample) /\ ~failing'
    <3>1. ~failing
      BY <1>13, <2>2 DEF Clean
    <3>2. /\ ~PerAttempt => Sample.http3
          /\ ~Preserving /\ ~Is("ios") => Sample.fresh
      BY <2>0, <3>1 DEF Sound, Inside, Sample
    <3>3. /\ kept' \in Seq([http3 : BOOLEAN, fresh : BOOLEAN])
          /\ \A i \in DOMAIN kept' : kept'[i] = Sample \/ (i \in DOMAIN kept /\ kept'[i] = kept[i])
      BY <2>2 DEF TypeOK, Sample
    <3> QED BY <2>0, <3>2, <3>3 DEF Sound, SamplesAreSound, Inside
  <2> QED BY <1>13, <2>1, <2>2 DEF Clean
<1>14. CASE NextSample
  BY <1>14 DEF NextSample, Sound, SamplesAreSound, Inside, Sample
<1>15. CASE Retry
  BY <1>15 DEF Retry, Sound, SamplesAreSound, Inside, Sample
<1>16. CASE GiveUp
  BY <1>16 DEF GiveUp, Sound, SamplesAreSound, Inside, Sample
<1>17. CASE Leave
  BY <1>17 DEF Leave, Sound, SamplesAreSound, Inside, Sample
<1>18. CASE BrowserDies
  BY <1>18 DEF BrowserDies, Sound, SamplesAreSound, Inside, Sample
<1> QED BY <1>1, <1>2, <1>3, <1>4, <1>5, <1>6, <1>7, <1>8, <1>9, <1>10, <1>11, <1>12, <1>13, <1>14, <1>15, <1>16, <1>17, <1>18 DEF Next, Step

LEMMA CountHolds == IInv /\ Next => Counted'
<1> SUFFICES ASSUME IInv, Next PROVE Counted'
  OBVIOUS
<1> USE Runners DEF IInv, Is, PerAttempt, Preserving, Resetting, Attempts, work, ends, vars, GoTo, Raise, Keeps, Start, Slip, Ask, Kill, Again, Over, AfterSample, Answering,
        EnterChrome, EnterAndroid, EnterSafari, EnterIos, LaunchChrome, LaunchAndroid, LaunchSafari, LaunchIos,
        WaitForPort, ForwardPort, OpenUrl, StopProcess, CleanChrome, CleanAndroid, CleanSafari, CleanIos,
        LeavePlaywright, LeaveDriver
<1>1. CASE Refuse
  BY <1>1 DEF Refuse, Counted, Waiting, Inside
<1>2. CASE Enter
  BY <1>2 DEF Enter, Counted, Waiting, Inside
<1>3. CASE Arm
  BY <1>3 DEF Arm, Counted, Waiting, Inside
<1>4. CASE Settle
  BY <1>4 DEF Settle, Counted, Waiting, Inside
<1>5. CASE Launch
  BY <1>5 DEF Launch, Counted, Waiting, Inside
<1>6. CASE LaunchFails
  BY <1>6 DEF LaunchFails, Counted, Waiting, Inside
<1>7. CASE Attach
  BY <1>7 DEF Attach, Counted, Waiting, Inside
<1>8. CASE Connect
  BY <1>8 DEF Connect, Counted, Waiting, Inside
<1>9. CASE Read
  BY <1>9 DEF Read, Counted, Waiting, Inside
<1>10. CASE Try
  BY <1>10 DEF Try, Counted, Waiting, Inside
<1>11. CASE TryFails
  BY <1>11 DEF TryFails, Counted, Waiting, Inside
<1>12. CASE NoHttp3
  BY <1>12 DEF NoHttp3, Counted, Waiting, Inside
<1>13. CASE Clean
  BY <1>13 DEF Clean, Counted, Waiting, Inside
<1>14. CASE NextSample
  BY <1>14 DEF NextSample, Counted, Waiting, Inside
<1>15. CASE Retry
  <2>1. /\ UNCHANGED <<setup, kept>> /\ failing' = FALSE /\ pc' \in {"enter", "sample"}
        /\ pc' = "enter" => PerAttempt
        /\ Len(kept) < Samples
    BY <1>15 DEF Retry, Counted
  <2>2. attempt' <= Attempts
    BY <1>15 DEF Retry, TypeOK
  <2> QED BY <2>1, <2>2 DEF Counted, Waiting, Inside, TypeOK
<1>16. CASE GiveUp
  BY <1>16 DEF GiveUp, Counted, Waiting, Inside
<1>17. CASE Leave
  BY <1>17 DEF Leave, Counted, Waiting, Inside
<1>18. CASE BrowserDies
  BY <1>18 DEF BrowserDies, Counted, Waiting, Inside
<1> QED BY <1>1, <1>2, <1>3, <1>4, <1>5, <1>6, <1>7, <1>8, <1>9, <1>10, <1>11, <1>12, <1>13, <1>14, <1>15, <1>16, <1>17, <1>18 DEF Next, Step

LEMMA NextHolds == IInv /\ [Next]_vars => IInv'
<1> SUFFICES ASSUME IInv, [Next]_vars PROVE IInv'
  OBVIOUS
<1>1. CASE Next
  BY <1>1, TypeHolds, PlaceHolds, GoHolds, AskHolds, SampleHolds, CountHolds DEF IInv
<1>2. CASE UNCHANGED vars
  <2> USE <1>2 DEF vars, work, ends, IInv, Is, PerAttempt, Preserving, Resetting, Attempts, Waiting, Inside
  <2>1. TypeOK'
    BY DEF TypeOK
  <2>2. Placed' /\ Going'
    BY DEF Placed, Going
  <2>3. Asking'
    BY DEF Asking
  <2>4. Sound' /\ Counted'
    BY DEF Sound, SamplesAreSound, Counted
  <2> QED BY <2>1, <2>2, <2>3, <2>4
<1> QED BY <1>1, <1>2

\* The inductive invariant of the three runners' sample loops.
THEOREM Invariance == Spec => []IInv
<1> QED BY InitHolds, NextHolds, PTL DEF Spec

\* What the command line tool and its runners record stays of its type: in particular no
\* sample is attempted more than three times, nor HTTP/3 asked for more than six.
THEOREM TypeCorrect == Spec => []TypeOK
<1>1. IInv => TypeOK
  BY DEF IInv
<1> QED BY Invariance, <1>1, PTL

\* capture_sample of the Chrome and Android runners never returns a sample without
\* HTTP/3, nor any but the first of a browser started for it.
THEOREM SoundSamples == Spec => []SamplesAreSound
<1>1. IInv => SamplesAreSound
  BY DEF IInv, Sound
<1> QED BY Invariance, <1>1, PTL

\* The finally clauses and __exit__ of the runners try every end they owe, whichever step
\* of them or before them failed, unless __enter__ failed, an answer was lost, Chrome's
\* first process died before the rest or Playwright's stop raised.
THEOREM EndsAreAsked == Spec => []EveryEndIsAsked
<1>1. IInv => EveryEndIsAsked
  <2> SUFFICES ASSUME IInv, slips = {}
               PROVE  /\ pc = "sample" => on \cap OfASample \subseteq asked \cup LeftOpen
                      /\ pc \in {"enter", "done"} => on \subseteq asked \cup LeftOpen
                      /\ pc \in {"enter", "done"} /\ PerAttempt => on \subseteq LeftOpen
    BY DEF EveryEndIsAsked
  <2> USE DEF IInv, Asking, Inside, Is, PerAttempt, LeftOpen, OfASample
  <2>1. setup.runner \in {"chrome", "android", "safari", "ios"}
    BY Runners
  <2>2. CASE Is("chrome")
    BY <2>2
  <2>3. CASE Is("android")
    BY <2>3
  <2>4. CASE Is("safari")
    BY <2>4
  <2>5. CASE Is("ios")
    BY <2>5
  <2> QED BY <2>1, <2>2, <2>3, <2>4, <2>5
<1> QED BY Invariance, <1>1, PTL
-----------------------------------------------------------------------------
LEMMA LoopInit == IInv /\ Init => Loop!Init
BY Runners DEF IInv, Init, Loop!Init, Status, Attempts

\* A step of the session is a step of the abstract loop, or none: a sample that is kept
\* is Take, a further attempt Lose, and the end is GiveUp or Finish.
LEMMA LoopStep == IInv /\ [Next]_vars => [Loop!Next]_<<Len(kept), attempt, Status, Attempts>>
<1> SUFFICES ASSUME IInv, Next PROVE [Loop!Next]_<<Len(kept), attempt, Status, Attempts>>
  BY DEF vars, work, Status, Attempts, Is
<1> USE Runners DEF IInv, Is, PerAttempt, Preserving, Resetting, Attempts, work, ends, vars, GoTo, Raise, Keeps, Start, Slip, Ask, Kill, Again, Over, AfterSample, Answering,
        EnterChrome, EnterAndroid, EnterSafari, EnterIos, LaunchChrome, LaunchAndroid, LaunchSafari, LaunchIos,
        WaitForPort, ForwardPort, OpenUrl, StopProcess, CleanChrome, CleanAndroid, CleanSafari, CleanIos,
        LeavePlaywright, LeaveDriver
<1> USE DEF Loop!Next, Loop!Take, Loop!Lose, Loop!GiveUp, Loop!Finish, Status
<1>1. CASE Refuse
  BY <1>1 DEF Refuse, TypeOK, Counted, Waiting, Inside
<1>2. CASE Enter
  BY <1>2 DEF Enter, TypeOK, Counted, Waiting, Inside
<1>3. CASE Arm
  <2>1. UNCHANGED <<kept, attempt, setup>> /\ pc = "arm" /\ pc' \in {"sample", "done"} /\ (pc' = "done" => failing')
    BY <1>3 DEF Arm
  <2>2. Len(kept) = 0
    BY <2>1 DEF Placed, Counted
  <2> QED BY <2>1, <2>2
<1>4. CASE Settle
  BY <1>4 DEF Settle, TypeOK, Counted, Waiting, Inside
<1>5. CASE Launch
  BY <1>5 DEF Launch, TypeOK, Counted, Waiting, Inside
<1>6. CASE LaunchFails
  BY <1>6 DEF LaunchFails, TypeOK, Counted, Waiting, Inside
<1>7. CASE Attach
  BY <1>7 DEF Attach, TypeOK, Counted, Waiting, Inside
<1>8. CASE Connect
  BY <1>8 DEF Connect, TypeOK, Counted, Waiting, Inside
<1>9. CASE Read
  BY <1>9 DEF Read, TypeOK, Counted, Waiting, Inside
<1>10. CASE Try
  BY <1>10 DEF Try, TypeOK, Counted, Waiting, Inside
<1>11. CASE TryFails
  BY <1>11 DEF TryFails, TypeOK, Counted, Waiting, Inside
<1>12. CASE NoHttp3
  BY <1>12 DEF NoHttp3, TypeOK, Counted, Waiting, Inside
<1>13. CASE Clean
  <2>0. /\ UNCHANGED setup /\ pc = "clean" /\ pc' \in {"leave", "judge"}
    BY <1>13 DEF Clean
  <2>1. CASE failing'
    <3>1. kept' = kept /\ attempt' = attempt
      BY <1>13, <2>1 DEF Clean
    <3> QED BY <2>0, <3>1
  <2>2. CASE ~failing'
    <3>1. kept' = Append(kept, Sample) /\ attempt' = 1
      BY <1>13, <2>2 DEF Clean
    <3>2. Len(kept') = Len(kept) + 1
      BY <3>1 DEF TypeOK
    <3>3. Len(kept) < Samples
      BY <2>0 DEF Counted, Waiting, Inside
    <3> QED BY <2>0, <3>1, <3>2, <3>3
  <2> QED BY <2>1, <2>2
<1>14. CASE NextSample
  BY <1>14 DEF NextSample, TypeOK, Counted, Waiting, Inside
<1>15. CASE Retry
  BY <1>15 DEF Retry, TypeOK, Counted, Waiting, Inside
<1>16. CASE GiveUp
  BY <1>16 DEF GiveUp, TypeOK, Counted, Waiting, Inside
<1>17. CASE Leave
  BY <1>17 DEF Leave, TypeOK, Counted, Waiting, Inside
<1>18. CASE BrowserDies
  BY <1>18 DEF BrowserDies, TypeOK, Counted, Waiting, Inside
<1> QED BY <1>1, <1>2, <1>3, <1>4, <1>5, <1>6, <1>7, <1>8, <1>9, <1>10, <1>11, <1>12, <1>13, <1>14, <1>15, <1>16, <1>17, <1>18 DEF Next, Step

\* Whatever fails and however often, the command ends with exactly the samples it was
\* asked for, or fails: the detailed loops implement the abstract one.
THEOREM TakesWhatIsAsked == Spec => ImplementsSampleLoop
<1>1. Spec => []IInv
  BY Invariance
<1>2. Init => IInv
  BY InitHolds
<1> QED BY <1>1, <1>2, LoopInit, LoopStep, PTL DEF Spec, ImplementsSampleLoop, Loop!Spec
=============================================================================

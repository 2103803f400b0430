--------------------------- MODULE CaptureSession ---------------------------
(***************************************************************************)
(* How one command of tools/fingerprint-harvester takes its samples: the   *)
(* sample loops of cli.py over the three runners, chrome_runner.py,        *)
(* android_runner.py and safari_runner.py, the last on macOS and, through  *)
(* ios_safari_capture.mjs, on an iOS simulator.                            *)
(*                                                                         *)
(* A runner is a context manager.  Entering it starts an automation driver *)
(* and leaving it stops that; a sample in between starts a browser, a port *)
(* forward or an inspector session and ends it in a finally clause.        *)
(* Chrome and Android enter one runner for all samples, Safari one per     *)
(* attempt.  When entering fails, Python does not call __exit__.  What     *)
(* fails, is refused or dies at a step is the machine's or device's choice,*)
(* and so is whether what was asked to end does: no runner looks.          *)
(***************************************************************************)
EXTENDS Naturals, Sequences

CONSTANTS Samples,      \* the number of samples asked for
          Setups        \* the runners and options a command may have

\* reset: Chrome on Android is cleared for each sample (not --preserve-profile).
\* http3: there is a collector of HTTP/3 (not --http2-only).
Setup == [runner : {"chrome", "android", "safari", "ios"},
          reset  : BOOLEAN,
          http3  : BOOLEAN]

ASSUME SamplesAssumption == Samples \in Nat \ {0}
ASSUME SetupsAssumption ==
    /\ Setups \subseteq Setup
    /\ \A s \in Setups : s.runner \in {"chrome", "android"} => s.http3

MaxTries == 6          \* HTTP/3 is asked for so often

\* What a command starts.  debug: Chrome is the persistent debug app of the device.
\* page: tabs opened in the user's own Chrome.  launcher: the Chrome command that opens
\* an address.  session: of WebDriver or inspector.
Resources == {"playwright", "driver", "debug", "browser", "launcher", "forward", "page",
              "session"}
OfASample == {"browser", "launcher", "forward", "page", "session"}

\* What makes a command let go of something that it does not ask to end.  enter: __enter__
\* fails after it has started something.  answer: something was started, but the answer is
\* lost.  leader: the first of Chrome's processes is dead.  stop: Playwright's stop raises
\* in __exit__.
Slips == {"enter", "answer", "leader", "stop"}

VARIABLES
    setup,      \* the runner and options of this command
    pc,
    kept,       \* the samples taken so far
    attempt,    \* the attempt at the present sample
    tries,      \* how often this sample has asked for HTTP/3
    shown,      \* whether it got it
    failing,    \* whether an exception is on its way
    used,       \* whether this browser has answered an attempt before
    alive,      \* whether the process that was started as Chrome lives
    on,         \* what was started and goes on, the last of each kind
    asked,      \* what was asked to end since it was last started
    slips       \* what has happened so far to let go of something

work == <<kept, attempt, tries, shown, used>>
ends == <<on, asked, slips>>
vars == <<setup, pc, failing, work, alive, ends>>

TypeOK ==
    /\ setup \in Setups
    /\ pc \in {"enter", "arm", "settle", "sample", "attach", "connect", "read", "http3",
               "clean", "judge", "leave", "done"}
    /\ kept \in Seq([http3 : BOOLEAN, fresh : BOOLEAN])
    /\ attempt \in 1..3
    /\ tries \in 0..MaxTries
    /\ shown \in BOOLEAN /\ failing \in BOOLEAN /\ used \in BOOLEAN
    /\ alive \in BOOLEAN
    /\ on \subseteq Resources
    /\ asked \subseteq Resources
    /\ slips \subseteq Slips
-----------------------------------------------------------------------------
Is(runner) == setup.runner = runner
PerAttempt == setup.runner \in {"safari", "ios"}     \* a runner for each attempt
Resetting  == Is("android") /\ setup.reset
Preserving == Is("android") /\ ~setup.reset

\* The Chrome and Safari loops run to three, android-capture has none.
Attempts == IF Is("android") THEN 1 ELSE 3

GoTo(label)  == pc' = label /\ UNCHANGED failing
Raise(label) == pc' = label /\ failing' = TRUE

AfterSample == IF PerAttempt THEN "leave" ELSE "judge"

Keeps    == UNCHANGED ends
Start(r) == on' = on \cup {r} /\ asked' = asked \ {r} /\ UNCHANGED slips
Slip(by) == slips' = slips \cup {by} /\ UNCHANGED <<on, asked>>

\* Each of rs is told to end, and what comes of it is suppressed or not looked at.
Ask(rs) ==
    /\ \E ended \in SUBSET rs : on' = on \ ended
    /\ asked' = asked \cup rs
    /\ UNCHANGED slips

\* Killed, or gone with the process that is.
Kill(rs) == on' = on \ rs /\ asked' = asked \cup rs /\ UNCHANGED slips
-----------------------------------------------------------------------------
Init ==
    /\ setup \in Setups
    /\ pc = "enter" /\ failing = FALSE
    /\ kept = <<>> /\ attempt = 1
    /\ tries = 0 /\ shown = FALSE /\ used = FALSE
    /\ alive = FALSE
    /\ on = {} /\ asked = {} /\ slips = {}

(***************************************************************************)
(* __enter__                                                               *)
(***************************************************************************)

\* No browser, display, device, package, driver or helper: nothing is started yet; or
\* Playwright does not start, and its process may go on.
Refuse ==
    /\ pc = "enter"
    /\ Raise(IF PerAttempt THEN "judge" ELSE "done")
    /\ Keeps \/ (~PerAttempt /\ Slip("enter"))
    /\ UNCHANGED <<setup, work, alive>>

EnterChrome  == Is("chrome") /\ Start("playwright") /\ GoTo("sample")
EnterAndroid == /\ Is("android") /\ Start("playwright")
                /\ GoTo(IF setup.reset THEN "arm" ELSE "sample")
EnterSafari  == Is("safari") /\ Start("driver") /\ GoTo("settle")
EnterIos     == Is("ios") /\ Keeps /\ GoTo("sample")

Enter ==
    /\ pc = "enter"
    /\ EnterChrome \/ EnterAndroid \/ EnterSafari \/ EnterIos
    /\ UNCHANGED <<setup, work, alive>>

\* _enable_test_launch makes Chrome the debug app, then writes its command line.
Arm ==
    /\ pc = "arm"
    /\ \/ Start("debug") /\ GoTo("sample")
       \/ /\ on' \in {on, on \cup {"debug"}} /\ UNCHANGED asked
          /\ slips' = slips \cup {"enter"}
          /\ Raise("done")
    /\ UNCHANGED <<setup, work, alive>>

\* wait_until_ready: the driver answers, or exits, or takes too long.
Settle ==
    /\ pc = "settle"
    /\ \/ GoTo("sample") /\ Keeps
       \/ Raise("judge") /\ on' = on \ {"driver"} /\ UNCHANGED <<asked, slips>>
       \/ Raise("judge") /\ Slip("enter")
    /\ UNCHANGED <<setup, work, alive>>
-----------------------------------------------------------------------------
(***************************************************************************)
(* capture_sample                                                          *)
(***************************************************************************)

\* Chrome is started on an empty profile.
LaunchChrome == Is("chrome") /\ used' = FALSE /\ Start("browser") /\ GoTo("attach")

\* It is stopped, cleared, armed again and started, or the user's own is taken as it is.
LaunchAndroid ==
    /\ \/ Resetting /\ used' = FALSE /\ Start("browser")
       \/ Preserving /\ UNCHANGED used /\ Keeps
    /\ GoTo("attach")

\* A WebDriver session is created.
LaunchSafari == Is("safari") /\ used' = FALSE /\ Start("session") /\ GoTo("read")

\* MobileSafari is terminated, unless that fails, and opened.
LaunchIos == Is("ios") /\ used' \in {FALSE, used} /\ Start("browser") /\ GoTo("connect")

\* What runs first, before any finally clause.
Launch ==
    /\ pc = "sample"
    /\ tries' = 0 /\ shown' = FALSE
    /\ alive' = Is("chrome")
    /\ LaunchChrome \/ LaunchAndroid \/ LaunchSafari \/ LaunchIos
    /\ UNCHANGED <<setup, kept, attempt>>

\* It fails: the app on the device or simulator may be stopped or already run; a session
\* may have been created and its timeouts refused, and goes with its driver.
LaunchFails ==
    /\ pc = "sample" /\ ~Preserving
    /\ \/ Keeps
       \/ (Is("android") \/ Is("ios")) /\ Start("browser")
       \/ Is("safari") /\ Start("session")
    /\ Raise(AfterSample)
    /\ UNCHANGED <<setup, work, alive>>

\* The port file Chrome writes; this is in the finally clause by now.
WaitForPort ==
    /\ Is("chrome") /\ Keeps
    /\ (alive /\ GoTo("connect")) \/ Raise("clean")

\* The debug socket of Android's Chrome, and a forward to it: the answer of adb forward
\* may be lost.
ForwardPort ==
    /\ Is("android")
    /\ \/ Start("forward") /\ GoTo("connect")
       \/ Keeps /\ Raise("judge")
       \/ /\ on' = on \cup {"forward"} /\ asked' = asked \ {"forward"}
          /\ slips' = slips \cup {"answer"}
          /\ Raise("judge")

Attach ==
    /\ pc = "attach"
    /\ WaitForPort \/ ForwardPort
    /\ UNCHANGED <<setup, work, alive>>

\* Whether what answers is still there: Chrome on this machine may have died.
Answering == Is("chrome") => alive

Connect ==
    /\ pc = "connect"
    /\ \/ /\ Answering
          /\ IF Is("ios") THEN Start("session") ELSE Keeps
          /\ GoTo("read")
       \/ Keeps /\ Raise("clean")
    /\ UNCHANGED <<setup, work, alive>>

\* A second Chrome command hands the address to the first and exits; when that is dead it
\* stays, and is stopped after ten seconds.  Android and Safari are told over CDP, WebDriver
\* or the inspector.
OpenUrl ==
    IF Is("chrome")
    THEN /\ on' \in {on, on \cup {"launcher"}}
         /\ asked' = asked \cup {"launcher"} /\ UNCHANGED slips
    ELSE Keeps

\* The collector of TLS and HTTP/2 is read, in the user's own Chrome in a new tab, whose
\* answer may be lost.
Read ==
    /\ pc = "read"
    /\ \/ /\ IF Preserving THEN Start("page") ELSE OpenUrl
          /\ \/ Answering /\ GoTo(IF setup.http3 THEN "http3" ELSE "clean")
             \/ Raise("clean")
       \/ Preserving /\ Slip("answer") /\ Raise("clean")
    /\ UNCHANGED <<setup, work, alive>>

\* One of six requests for HTTP/3.  Android reads on when an answer is not there in
\* time; for the others that ends the sample.
Try ==
    /\ pc = "http3" /\ tries < MaxTries
    /\ tries' = tries + 1
    /\ \/ Answering /\ shown' = TRUE /\ GoTo("clean")
       \/ Answering /\ UNCHANGED <<shown, pc, failing>>
       \/ UNCHANGED shown /\ IF Is("android") THEN UNCHANGED <<pc, failing>>
                                              ELSE Raise("clean")
    /\ OpenUrl
    /\ UNCHANGED <<setup, kept, attempt, used, alive>>

\* On Android a tab cannot be opened, or the answer is lost, or it cannot be navigated.
TryFails ==
    /\ pc = "http3" /\ tries < MaxTries /\ Is("android")
    /\ Raise("clean")
    /\ Keeps \/ (Preserving /\ Slip("answer"))
    /\ UNCHANGED <<setup, work, alive>>

\* Mutant: no runner minds.
NoHttp3Ignored ==
    /\ pc = "http3" /\ tries = MaxTries
    /\ GoTo("clean")
    /\ Keeps
    /\ UNCHANGED <<setup, work, alive>>

\* Six answers without HTTP/3: an error to Chrome and Android, a sample to Safari.
NoHttp3 ==
    /\ pc = "http3" /\ tries = MaxTries
    /\ IF PerAttempt THEN GoTo("clean") ELSE Raise("clean")
    /\ Keeps
    /\ UNCHANGED <<setup, work, alive>>

Sample == [http3 |-> shown, fresh |-> ~used]

\* Mutant: browser and session are ended only when their sample succeeded.
CleanOfKept ==
    /\ pc = "clean"
    /\ IF failing THEN Keeps ELSE Ask({"browser", "forward", "page", "session"})
    /\ kept' = IF failing THEN kept ELSE Append(kept, Sample)
    /\ attempt' = IF failing THEN attempt ELSE 1
    /\ used' = TRUE /\ alive' = FALSE
    /\ GoTo(AfterSample)
    /\ UNCHANGED <<setup, tries, shown>>

\* Mutant: a sample that was kept counts the attempts of the next from where it was.
CleanButCount ==
    /\ pc = "clean"
    /\ Ask({"browser", "forward", "page", "session"})
    /\ kept' = IF failing THEN kept ELSE Append(kept, Sample)
    /\ used' = TRUE /\ alive' = FALSE
    /\ GoTo(AfterSample)
    /\ UNCHANGED <<setup, attempt, tries, shown>>

\* Nothing is done about a Chrome whose first process is dead, whatever of it lives.  Else
\* that is told to end, and its group is killed if need be, by a taskkill whose result is
\* not read; the last wait is given up.
StopProcess ==
    IF alive THEN Ask({"browser"})
             ELSE IF "browser" \in on THEN Slip("leader") ELSE Keeps

\* What cannot be removed of Chrome's profile directory is an error.
CleanChrome == Is("chrome") /\ StopProcess /\ failing' \in {failing, TRUE}

\* Tabs and forward are given up whatever adb says, and so is the app.
CleanAndroid ==
    /\ Is("android")
    /\ Ask(IF setup.reset THEN {"page", "forward", "browser"} ELSE {"page", "forward"})
    /\ UNCHANGED failing

CleanSafari == Is("safari") /\ Ask({"session"}) /\ UNCHANGED failing

\* The helper ends, or is killed after three minutes, and its output is read, if there
\* is any; MobileSafari goes on.
CleanIos == Is("ios") /\ Kill({"session"}) /\ failing' \in {failing, TRUE}

\* The finally clause.
Clean ==
    /\ pc = "clean"
    /\ CleanChrome \/ CleanAndroid \/ CleanSafari \/ CleanIos
    /\ kept' = IF failing' THEN kept ELSE Append(kept, Sample)
    /\ attempt' = IF failing' THEN attempt ELSE 1
    /\ used' = TRUE /\ alive' = FALSE
    /\ pc' = AfterSample
    /\ UNCHANGED <<setup, tries, shown>>

\* The process that was started as Chrome dies, and the others of its group may live on.
\* No page of a Chrome that is started by the next address is ever seen over CDP.
BrowserDies ==
    /\ pc \in {"attach", "connect", "read", "http3", "clean"} /\ alive
    /\ alive' = FALSE
    /\ on' \in {on, on \ {"browser"}}
    /\ UNCHANGED <<setup, pc, failing, work, asked, slips>>
-----------------------------------------------------------------------------
(***************************************************************************)
(* The sample loop, and __exit__                                           *)
(***************************************************************************)
Again == IF PerAttempt THEN "enter" ELSE "sample"
Over  == IF PerAttempt THEN "done" ELSE "leave"

NextSample ==
    /\ pc = "judge" /\ ~failing
    /\ GoTo(IF Len(kept) < Samples THEN Again ELSE Over)
    /\ Keeps
    /\ UNCHANGED <<setup, work, alive>>

\* Mutant: the attempts are not counted.
RetryForEver ==
    /\ pc = "judge" /\ failing
    /\ failing' = FALSE /\ pc' = Again
    /\ Keeps
    /\ UNCHANGED <<setup, work, alive>>

\* Mutant: one attempt too many.
RetryOnceMore ==
    /\ pc = "judge" /\ failing /\ attempt <= Attempts
    /\ attempt' = attempt + 1
    /\ failing' = FALSE /\ pc' = Again
    /\ Keeps
    /\ UNCHANGED <<setup, kept, tries, shown, used, alive>>

Retry ==
    /\ pc = "judge" /\ failing /\ attempt < Attempts
    /\ attempt' = attempt + 1
    /\ failing' = FALSE /\ pc' = Again
    /\ Keeps
    /\ UNCHANGED <<setup, kept, tries, shown, used, alive>>

GiveUp ==
    /\ pc = "judge" /\ failing /\ attempt = Attempts
    /\ Raise(Over)
    /\ Keeps
    /\ UNCHANGED <<setup, work, alive>>

\* __exit__ of Chrome and Android.  Playwright's stop may raise, and then the rest is not
\* done.  No port is recorded any more, so no forward is removed again.
LeavePlaywright ==
    /\ ~PerAttempt
    /\ \/ /\ Ask({"playwright"} \cup IF Resetting THEN {"browser", "debug"} ELSE {})
          /\ GoTo("done")
       \/ /\ \E ended \in SUBSET {"playwright"} : on' = on \ ended
          /\ asked' = asked \cup {"playwright"}
          /\ slips' = IF Resetting THEN slips \cup {"stop"} ELSE slips
          /\ Raise("done")

\* A driver that does not end in ten seconds is killed.
LeaveDriver == PerAttempt /\ Kill({"driver", "session"}) /\ GoTo("judge")

\* __exit__.
Leave ==
    /\ pc = "leave"
    /\ LeavePlaywright \/ LeaveDriver
    /\ UNCHANGED <<setup, work, alive>>
-----------------------------------------------------------------------------
Step == \/ Refuse \/ Enter \/ Arm \/ Settle
        \/ Launch \/ LaunchFails \/ Attach \/ Connect \/ Read
        \/ Try \/ TryFails \/ NoHttp3 \/ Clean
        \/ NextSample \/ Retry \/ GiveUp \/ Leave

Next == Step \/ BrowserDies

\* Where a command may wait for ever: Playwright's start, stop, new_page, evaluate, send,
\* detach and close, taskkill, and the driver asked for its version have no timeout.
WaitsForEver == {"enter", "read", "http3", "clean", "leave"}
Endless ==
    \/ ~PerAttempt /\ pc \in WaitsForEver
    \/ Is("safari") /\ pc = "enter"

\* Every other wait has a timeout, after which the command goes on or raises.
Fairness == WF_vars(Step /\ ~Endless)

Spec == Init /\ [][Next]_vars /\ Fairness
-----------------------------------------------------------------------------
\* A sample of a Chrome, on a machine or device, has HTTP/3, though the first answers
\* may be without; and it is the first answer of a browser started, or an Android
\* profile cleared, for it, whatever attempts failed before (README.md of the
\* harvester: "Capture five fresh headful profiles").
SamplesAreSound ==
    \A i \in DOMAIN kept :
        /\ ~PerAttempt => kept[i].http3
        /\ ~Preserving /\ ~Is("ios") => kept[i].fresh

\* MobileSafari is left open for the next sample to terminate.
LeftOpen == IF Is("ios") THEN {"browser"} ELSE {}

\* One clean-up that fails or is refused keeps no other from being tried: whatever else
\* fails, as long as nothing slips from it, a command has asked whatever of an earlier
\* sample goes on to end before it begins the next, and all that goes on before it ends
\* itself; and a driver is gone, with its session, before another is started.  Asked is not
\* ended: a forward, tab, app or process may still be there.
EveryEndIsAsked ==
    slips = {} =>
        /\ pc = "sample" => on \cap OfASample \subseteq asked \cup LeftOpen
        /\ pc \in {"enter", "done"} => on \subseteq asked \cup LeftOpen
        /\ pc \in {"enter", "done"} /\ PerAttempt => on \subseteq LeftOpen

\* The command takes as many samples as it was asked for, each in as many attempts as
\* the command has, or fails: the promise Harvest builds on.
Status == IF pc # "done" THEN "sampling" ELSE IF failing THEN "failed" ELSE "taken"

Loop == INSTANCE SampleLoop WITH count <- Len(kept), limit <- Attempts, status <- Status

ImplementsSampleLoop == Loop!Spec

\* However the browser, driver and collectors behave, and however often the samples fail, a
\* command ends, or stays for ever in one of the waits that have no limit: never in its
\* retries, its six requests, its clean-up or between two samples.
EveryCaptureEnds ==
    <>(pc = "done") \/ \E wait \in WaitsForEver : <>[](pc = wait /\ Endless)
=============================================================================

---------------------------- MODULE IdleWatcher ----------------------------
(***************************************************************************)
(* beefy-idle-watcher (Server/8-Idle-Watcher/beefy_idle_watcher.py): every *)
(* SAMPLE_INTERVAL it looks at the probes and at the keep-awake file, and  *)
(* powers the host off after IDLE_MINUTES without anything busy.  This     *)
(* module composes it with those who take the hold (KeepAwake): the host   *)
(* going down ends every one of them.                                      *)
(*                                                                         *)
(* The daemon measures by the monotonic clock; here the clock counts its   *)
(* samples.  DRY_RUN = 0, as the host runs it (8-Idle-Watcher.md:184).     *)
(***************************************************************************)
EXTENDS KeepAwake

CONSTANTS
  Limit,      \* IDLE_MINUTES, in samples
  MaxMishap   \* bound: failed probe cycles and failed poweroffs

ASSUME LimitAssumption == Limit \in Nat \ {0} /\ MaxMishap \in Nat

VARIABLES
  on,       \* the host is up
  step,     \* the watcher: "nap", or "decide" with the sample taken
  busy,     \* the result of the sample
  idle,     \* samples since idle_since, at most Limit
  use,      \* a probe would fire: connections, ssh, CPU, network, disk
  calm,     \* history: samples in a row that saw no hold, at most Limit
  guarded,  \* history: the jobs that had the hold at the last sample
  mishaps   \* how many probe cycles and poweroffs failed

wvars == <<on, step, busy, idle, calm, guarded, mishaps>>
vars == <<hvars, wvars, use>>

Upto(n) == IF n < Limit THEN n ELSE Limit

\* t runs, and the hold is its own.
Holds(t) == mark[t] /\ pc[t] \in {"run", "drain"}

Init ==
  /\ HoldInit
  /\ on = TRUE
  /\ step = "nap" /\ busy = FALSE /\ idle = 0
  /\ calm = 0 /\ guarded = {}
  /\ use \in BOOLEAN
  /\ mishaps = 0

Mishap == mishaps < MaxMishap /\ mishaps' = mishaps + 1

\* Mutant: the inhibit file is left out.
Evaluate_ProbesOnly(fires) == fires

\* evaluate: what the probes and the file say.
Evaluate(fires) == fires \/ flag

\* The probes, then os.path.exists(INHIBIT_FILE).  A command that cannot be run
\* or read in time fails the cycle, which counts as busy.  One that ends with an
\* error, or a /proc file that cannot be read, gives an empty text, and the use
\* it would have shown goes unseen.
Sample ==
  /\ on /\ step = "nap"
  /\ step' = "decide"
  /\ \/ busy' = Evaluate(use) /\ UNCHANGED mishaps
     \/ busy' = Evaluate(FALSE) /\ Mishap
     \/ busy' = TRUE /\ Mishap
  /\ calm' = IF flag THEN 0 ELSE Upto(calm + 1)
  /\ guarded' = {t \in Job : Holds(t)}
  /\ UNCHANGED <<on, idle, use, hvars>>

UpdateIdle == IF busy THEN 0 ELSE Upto(idle + 1)

ShouldSleep == ~busy /\ UpdateIdle >= Limit

Stay ==
  /\ on /\ step = "decide"
  /\ ~ShouldSleep
  /\ step' = "nap"
  /\ idle' = UpdateIdle
  /\ UNCHANGED <<on, busy, calm, guarded, mishaps, use, hvars>>

\* systemctl poweroff: every process stops, /run is gone, and main returns.
PowerOff ==
  /\ on /\ step = "decide"
  /\ ShouldSleep
  /\ on' = FALSE
  /\ step' = "nap" /\ busy' = FALSE /\ idle' = 0
  /\ calm' = 0 /\ guarded' = {}
  /\ Shutdown
  /\ UNCHANGED <<use, mishaps>>

\* Mutant: the daemon returns whatever the exit status; systemd does not restart it.
PowerOffFails_Exits ==
  /\ on /\ step = "decide"
  /\ ShouldSleep
  /\ Mishap
  /\ step' = "gone"
  /\ UNCHANGED <<on, busy, idle, calm, guarded, use, hvars>>

\* It fails: the daemon does not exit, the next cycle tries again.
PowerOffFails ==
  /\ on /\ step = "decide"
  /\ ShouldSleep
  /\ Mishap
  /\ step' = "nap"
  /\ idle' = UpdateIdle
  /\ UNCHANGED <<on, busy, calm, guarded, use, hvars>>

Decide == Stay \/ PowerOff \/ PowerOffFails

\* A magic packet, or the power button; the daemon starts with the host.
Boot ==
  /\ ~on
  /\ on' = TRUE
  /\ UNCHANGED <<step, busy, idle, calm, guarded, mishaps, use, hvars>>

\* Someone starts or stops using the host.
UseChanges ==
  /\ use' = ~use
  /\ UNCHANGED <<wvars, hvars>>

HoldStep == on /\ Running /\ UNCHANGED <<wvars, use>>

Next == Sample \/ Decide \/ Boot \/ UseChanges \/ HoldStep

Spec == Init /\ [][Next]_vars

\* The daemon's loop and the jobs' processes run, and each job's work ends.
Fairness ==
  /\ WF_vars(Sample)
  /\ WF_vars(Decide)
  /\ \A t \in Job : WF_vars(on /\ Step(t) /\ UNCHANGED <<wvars, use>>)
  /\ WF_vars(on /\ Drain /\ UNCHANGED <<wvars, use>>)

FairSpec == Spec /\ Fairness

-----------------------------------------------------------------------------
(* Properties. *)

TypeOK ==
  /\ on \in BOOLEAN
  /\ step \in {"nap", "decide"}
  /\ busy \in BOOLEAN
  /\ idle \in 0 .. Limit
  /\ use \in BOOLEAN
  /\ calm \in 0 .. Limit
  /\ guarded \subseteq Job
  /\ mishaps \in Nat

\* beefy goes down only when none of the last IDLE_MINUTES of samples saw a
\* hold, whatever failed meanwhile: the pause between two jobs that hold it is
\* never enough (8-Idle-Watcher.md:99-100).
SleepsOnlyAfterCalm == [][on /\ ~on' => calm >= Limit]_vars

\* The poweroff ends every job.  Nobody who has the hold is ended by it but who
\* took it after the cycle had looked at the file, whoever else has taken,
\* borrowed and released it (8-Idle-Watcher.md:99-102).  The exception is
\* history: a hold that was taken or changed under another's.
HoldersStayUp ==
  [][on /\ ~on' /\ ~contested => \A t \in Job : Holds(t) => t \notin guarded]_vars

\* Left alone, beefy always goes to sleep: no unit and no job that ended
\* leaves a hold behind, no cycle gives up.
SleepsWhenLeftAlone == <>[](~use /\ owner = "no" /\ ~stray) => []<>~on

\* The idle clock never runs ahead of the calm.
ClockInv ==
  /\ step = "nap" => idle <= calm
  /\ step = "decide" /\ ~busy => UpdateIdle <= calm

\* A sample that came out idle found nobody with a hold of his own.
GuardInv == step = "decide" /\ ~busy /\ ~contested => guarded = {}

WInv == TypeOK /\ ClockInv
=============================================================================

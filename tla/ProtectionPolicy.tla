---------------------------- MODULE ProtectionPolicy ----------------------------
(* The protection the motor controller promises, stated on the samples           *)
(* themselves: a reaction needs the last n samples since the state was entered   *)
(* to agree, a latched fault waits for a manual reset and a new self-test, and   *)
(* a shutdown is final.  There are no counters here; MotorStateMachine           *)
(* implements this specification with four of them.                              *)
EXTENDS Readings, Sequences

VARIABLES
    state,
    recent   \* the samples judged since state was entered, oldest first

policyVars == <<state, recent>>

Judging == {"healthy", "degraded"}

Offline(s) == ~s.online
Critical(s) == s.online /\ is_critical(s)
Warning(s) == s.online /\ is_warning(s)
Recovered(s) == s.online /\ ~is_warning(s) /\ is_recovered(s)

\* The last n samples of h all satisfy P.
LastAll(h, n, P(_)) ==
    /\ n <= Len(h)
    /\ \A i \in 1 .. Len(h) : i > Len(h) - n => P(h[i])

Init == state = "booting" /\ recent = <<>>

Enter(next) == state' = next /\ recent' = <<>>

Command(from, to) == state = from /\ Enter(to)

Shutdown == state # "safe_shutdown" /\ Enter("safe_shutdown")

InternalFault == state # "safe_shutdown" /\ Enter("fault_latched")

MustLatch(h, s) ==
    \/ ~s.online /\ LastAll(h, config_.offline_samples, Offline)
    \/ s.online /\ LastAll(h, config_.critical_samples, Critical)

MustDegrade(h, s) ==
    s.online /\ state = "healthy" /\ LastAll(h, config_.warning_samples, Warning)

MayRecover(h, s) ==
    s.online /\ state = "degraded" /\ LastAll(h, config_.recovery_samples, Recovered)

Judge(s) ==
    LET h == Append(recent, s) IN
    /\ state \in Judging
    /\ \/ MustLatch(h, s) /\ Enter("fault_latched")
       \/ ~MustLatch(h, s) /\ MustDegrade(h, s) /\ Enter("degraded")
       \/ ~MustLatch(h, s) /\ MayRecover(h, s) /\ Enter("healthy")
       \/ /\ ~MustLatch(h, s) /\ ~MustDegrade(h, s) /\ ~MayRecover(h, s)
          /\ recent' = h
          /\ UNCHANGED state

Next ==
    \/ \E s \in Samples : Judge(s)
    \/ Command("booting", "self_test")
    \/ Command("self_test", "healthy")
    \/ Command("fault_latched", "self_test")
    \/ InternalFault
    \/ Shutdown

Spec == Init /\ [][Next]_policyVars
=================================================================================

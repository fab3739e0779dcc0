---------------------------- MODULE RateControl ----------------------------
(***************************************************************************)
(* How the bridge chooses how fast it writes to the firmware's UART        *)
(* (bridge/src/rate.rs, rate_calibration.rs and the retransmission timer   *)
(* of session.rs).  After every link reset it probes the profiles the      *)
(* firmware supports, slowest first; then it runs one profile below the    *)
(* fastest stable one, slows down when frames are lost, and calibrates     *)
(* again when it had to slow down twice.                                   *)
(*                                                                         *)
(* A probe is echoed by the firmware, late or never; every attempt has its *)
(* own nonce.  The link reset before a calibration empties both wires      *)
(* (they are first in, first out), so echoes of a former one do not occur. *)
(***************************************************************************)
EXTENDS Integers, Sequences

CONSTANTS
    MaxProfile,      \* RATE_PROFILES has the ids 0..MaxProfile, 0 the slowest
    WarmupAttempts,  \* RATE_WARMUP_ATTEMPTS
    ProbeAttempts,   \* RATE_PROBE_ATTEMPTS
    LossLimit,       \* consecutive losses that make record_loss slow down: 3
    DownshiftLimit,  \* downshifts that make needs_recalibration true: 2
    MaxEchoes        \* bound: probes and echoes on the wires

ASSUME RateAssumption ==
    /\ MaxProfile \in Nat /\ WarmupAttempts \in Nat \ {0}
    /\ ProbeAttempts \in Nat /\ ProbeAttempts > 2
    /\ LossLimit \in Nat \ {0} /\ DownshiftLimit \in Nat \ {0} /\ MaxEchoes \in Nat \ {0}

VARIABLES
    phase,        \* "warmup", "probe", "run", or "failed" (the calibration gave up)
    mask,         \* supported_rate_mask of READY, as a set of profiles
    ctl,          \* RateController
    profile,      \* the profile being probed
    attempt,      \* attempts already made with it
    successes,    \* and how many of them were echoed in time
    nonce,        \* probe_nonce
    awaited,      \* wait_for_rate_probe_ack is waiting
    echoes,       \* probes sent and not yet echoed to the bridge, oldest first
    outstanding,  \* run: a DATA_C2M waits for its ACK
    answered,     \* history: attempts of this profile that their own echo answered
    passed        \* history: profiles all of whose attempts were answered so

calibration == <<profile, attempt, successes, nonce, awaited, echoes, answered, passed>>
vars == <<phase, mask, ctl, calibration, outstanding>>

Profiles == 0..MaxProfile

\* RateController::new.
NewController ==
    [highest_stable |-> 0, active |-> 0, supported |-> Profiles,
     consecutive_losses |-> 0, downshift_count |-> 0]

highest_supported_below(p, supported) ==
    IF \E q \in supported : q < p
    THEN CHOOSE q \in supported : q < p /\ \A r \in supported : r < p => r <= q
    ELSE 0

mark_profile_stable_with_mask(p) ==
    [NewController EXCEPT !.supported = mask \cup {0}, !.highest_stable = p,
                          !.active = highest_supported_below(p, mask \cup {0})]

\* Fault: the losses are counted and nothing else happens.
record_loss_only(c) == [c EXCEPT !.consecutive_losses = IF @ = 255 THEN 255 ELSE @ + 1]

record_loss(c) ==
    IF c.consecutive_losses + 1 < LossLimit
    THEN [c EXCEPT !.consecutive_losses = @ + 1]
    ELSE [c EXCEPT !.consecutive_losses = 0,
                   !.active = IF @ > 0 THEN highest_supported_below(@, c.supported) ELSE @,
                   !.downshift_count = IF c.active > 0 THEN @ + 1 ELSE @]

record_success(c) == [c EXCEPT !.consecutive_losses = 0]

needs_recalibration(c) == c.downshift_count >= DownshiftLimit

-----------------------------------------------------------------------------
(* calibrate_rate                                                          *)

\* READY came in: normalize_ready insists on the slowest profile.
Calibrate ==
    /\ phase' = "warmup"
    /\ mask' \in {m \in SUBSET Profiles : 0 \in m}
    /\ ctl' = NewController
    /\ profile' = 0 /\ attempt' = 0 /\ successes' = 0 /\ nonce' = 0
    /\ awaited' = FALSE /\ echoes' = <<>> /\ outstanding' = FALSE
    /\ passed' = {} /\ answered' = 0

Init ==
    /\ phase = "warmup" /\ mask \in {m \in SUBSET Profiles : 0 \in m} /\ ctl = NewController
    /\ profile = 0 /\ attempt = 0 /\ successes = 0 /\ nonce = 0
    /\ awaited = FALSE /\ echoes = <<>> /\ outstanding = FALSE
    /\ passed = {} /\ answered = 0

Attempts == IF phase = "warmup" THEN WarmupAttempts ELSE ProbeAttempts

\* probe_rate_once writes a RATE_PROBE and waits.  The probe or its echo
\* may be damaged on the wire.
SendProbe ==
    /\ phase \in {"warmup", "probe"} /\ ~awaited /\ attempt < Attempts
    /\ awaited' = TRUE
    /\ \/ Len(echoes) < MaxEchoes /\ echoes' = Append(echoes, [nonce |-> nonce, profile |-> profile])
       \/ UNCHANGED echoes
    /\ UNCHANGED <<phase, mask, ctl, profile, attempt, successes, nonce, outstanding,
                   passed, answered>>

\* Fault: any echo answers the attempt.
rate_probe_ack_any(e) == TRUE

rate_probe_ack_matches(e) == e.nonce = nonce /\ e.profile = profile

\* An echo arrives while the bridge waits.
Echo ==
    /\ awaited /\ echoes # <<>>
    /\ echoes' = Tail(echoes)
    /\ IF rate_probe_ack_matches(Head(echoes))
       THEN /\ successes' = successes + 1 /\ attempt' = attempt + 1
            /\ nonce' = nonce + 1 /\ awaited' = FALSE
            /\ answered' = IF Head(echoes) = [nonce |-> nonce, profile |-> profile]
                           THEN answered + 1 ELSE answered
       ELSE UNCHANGED <<successes, attempt, nonce, awaited, answered>>
    /\ UNCHANGED <<phase, mask, ctl, profile, outstanding, passed>>

\* Fault: an attempt without an echo is not counted.
ProbeTimeoutUncounted ==
    /\ awaited
    /\ awaited' = FALSE /\ nonce' = nonce
    /\ UNCHANGED <<phase, mask, ctl, profile, attempt, successes, echoes, outstanding,
                   passed, answered>>

\* RATE_PROBE_ACK_TIMEOUT: the echo is late or lost.
ProbeTimeout ==
    /\ awaited
    /\ awaited' = FALSE /\ attempt' = attempt + 1 /\ nonce' = nonce + 1
    /\ UNCHANGED <<phase, mask, ctl, profile, successes, echoes, outstanding, passed, answered>>

\* The warmup needs one success.
WarmupDone ==
    /\ phase = "warmup" /\ ~awaited /\ attempt = WarmupAttempts
    /\ phase' = IF successes = 0 THEN "failed" ELSE "probe"
    /\ attempt' = 0 /\ successes' = 0 /\ answered' = 0
    /\ UNCHANGED <<mask, ctl, profile, nonce, awaited, echoes, outstanding, passed>>

\* The next supported profile, or the end of the loop.
Higher == {p \in mask : p > profile}
ToNextProfile ==
    IF Higher = {} THEN phase' = "run" /\ UNCHANGED profile
    ELSE /\ profile' = CHOOSE p \in Higher : \A q \in Higher : p <= q
         /\ UNCHANGED phase

\* All attempts of a profile are made: stable, borderline (2), or too fast.
ProfileDone ==
    /\ phase = "probe" /\ ~awaited /\ attempt = ProbeAttempts
    /\ attempt' = 0 /\ successes' = 0 /\ answered' = 0
    /\ CASE successes = ProbeAttempts ->
               /\ ctl' = mark_profile_stable_with_mask(profile)
               /\ passed' = IF answered = ProbeAttempts THEN passed \cup {profile} ELSE passed
               /\ ToNextProfile
         [] successes = 2 ->
               /\ ctl' = mark_profile_stable_with_mask(profile)
               /\ phase' = "run"
               /\ UNCHANGED <<profile, passed>>
         [] OTHER ->
               /\ phase' = IF profile = 0 THEN "failed" ELSE "run"
               /\ UNCHANGED <<ctl, profile, passed>>
    /\ UNCHANGED <<mask, nonce, awaited, echoes, outstanding>>

-----------------------------------------------------------------------------
(* run_link_client                                                         *)

SendData ==
    /\ phase = "run" /\ ~outstanding
    /\ outstanding' = TRUE
    /\ UNCHANGED <<phase, mask, ctl, calibration>>

\* handle_ack_c2m_with_rate.
AckData ==
    /\ phase = "run" /\ outstanding
    /\ outstanding' = FALSE
    /\ ctl' = record_success(ctl)
    /\ UNCHANGED <<phase, mask, calibration>>

\* handle_retransmit_timeout: the frame goes out again at the active
\* profile, or the link is reset and calibrated again.
RetransmitTimeout ==
    /\ phase = "run" /\ outstanding
    /\ IF needs_recalibration(record_loss(ctl))
       THEN Calibrate
       ELSE /\ ctl' = record_loss(ctl)
            /\ UNCHANGED <<phase, mask, calibration, outstanding>>

\* The link is reset for another reason, or a new client comes after a
\* failed calibration.
Reset ==
    /\ phase \in {"run", "failed"}
    /\ Calibrate

Next ==
    \/ SendProbe \/ Echo \/ ProbeTimeout \/ WarmupDone \/ ProfileDone
    \/ SendData \/ AckData \/ RetransmitTimeout \/ Reset

Spec == Init /\ [][Next]_vars

\* The calibration's loops and the retransmission timer keep going; echoes,
\* acknowledgements and further data are not promised.
FairSpec ==
    /\ Spec
    /\ WF_vars(SendProbe) /\ WF_vars(ProbeTimeout)
    /\ WF_vars(WarmupDone) /\ WF_vars(ProfileDone) /\ WF_vars(RetransmitTimeout)

-----------------------------------------------------------------------------
(* Properties.                                                             *)

\* Unless it is the slowest one, the profile in use is one the firmware
\* supports, all of whose probes of this calibration their own echoes
\* answered, and lies below the fastest stable profile, which may itself be
\* borderline: neither a borderline or failed profile is ever used, after any
\* number of downshifts, nor one that a late echo of an earlier attempt speaks
\* for.
ActiveProven ==
    phase = "run" /\ ctl.active > 0 =>
        ctl.active \in mask /\ ctl.active \in passed /\ ctl.active < ctl.highest_stable

\* Frames that keep getting lost slow the link down to the slowest profile
\* or make it calibrate again.
LossSlowsDown ==
    (phase = "run" /\ outstanding) ~> (~outstanding \/ phase # "run" \/ ctl.active = 0)

\* Every calibration comes to an end, in the running link or in failure.
CalibrationEnds == (phase = "warmup") ~> (phase \in {"run", "failed"})
=============================================================================

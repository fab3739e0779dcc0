------------------------- MODULE RateControlProofs -------------------------
(***************************************************************************)
(* The profile the bridge runs at was proven by its own probes, for every  *)
(* number of profiles, attempts and losses.                                *)
(***************************************************************************)
EXTENDS RateControl, WellFoundedInduction, TLAPS

-----------------------------------------------------------------------------
(* The invariant.                                                          *)

Types ==
    /\ phase \in {"warmup", "probe", "run", "failed"}
    /\ mask \subseteq Profiles /\ 0 \in mask
    /\ ctl \in [highest_stable : Profiles, active : Profiles, supported : SUBSET Profiles,
                consecutive_losses : Nat, downshift_count : Nat]
    /\ profile \in mask
    /\ attempt \in Nat /\ successes \in Nat /\ nonce \in Nat /\ answered \in Nat
    /\ echoes \in Seq([nonce : Nat, profile : Profiles])

\* Only the echo of the attempt itself counts, however late others come.
OwnEcho == successes = answered

\* The profiles are probed from below: every supported one below the profile
\* at hand has passed, and so has every one below the one marked stable.
ProbedBelow ==
    /\ phase = "warmup" => profile = 0
    /\ phase \in {"warmup", "probe"} => \A p \in mask : p < profile => p \in passed
    /\ \A p \in mask : p < ctl.highest_stable => p \in passed

\* The controller never leaves the supported profiles below the stable one;
\* once a profile has been marked it knows which those are.
BelowStable ==
    /\ ctl.active # 0 => ctl.active \in mask /\ ctl.active < ctl.highest_stable
    /\ phase = "run" \/ (phase = "probe" /\ profile # 0) => ctl.supported \subseteq mask

RateInv == Types /\ OwnEcho /\ ProbedBelow /\ BelowStable

-----------------------------------------------------------------------------
(* The extrema the code's loops over RATE_PROFILES find.                   *)

\* A set of naturals has a least element.
LEMMA Least ==
    ASSUME NEW T, T \subseteq Nat, T # {}
    PROVE  \E x \in T : \A y \in T : x <= y
<1> DEFINE Less == {ss \in Nat \X Nat : ss[1] < ss[2]}
<1>1. IsWellFoundedOn(Less, Nat)
  BY NatLessThanWellFounded DEF OpToRel
<1>2. PICK x \in T : \A y \in T : ~(<<y, x>> \in Less)
  BY <1>1, WFMin
<1>3. ASSUME NEW y \in T PROVE x <= y
  <2>1. ~(y < x)
    BY <1>2
  <2> QED
    BY <2>1
<1> QED
  BY <1>3

\* highest_supported_below finds a supported profile below p, or 0.
LEMMA HighestBelow ==
    ASSUME NEW p \in Nat, NEW supported, supported \subseteq Nat
    PROVE  LET h == highest_supported_below(p, supported) IN
           h # 0 => h \in supported /\ h < p
<1>1. CASE ~\E q \in supported : q < p
  BY <1>1 DEF highest_supported_below
<1>2. CASE \E q \in supported : q < p
  <2> DEFINE gaps == {p - q : q \in {r \in supported : r < p}}
  <2>1. gaps \subseteq Nat /\ gaps # {}
    <3>1. PICK q \in supported : q < p
      BY <1>2
    <3>2. p - q \in gaps
      BY <3>1
    <3>3. ASSUME NEW r \in supported, r < p PROVE p - r \in Nat
      BY <3>3
    <3> QED
      BY <3>2, <3>3
  <2>2. PICK g \in gaps : \A y \in gaps : g <= y
    BY <2>1, Least
  <2>3. PICK q \in supported : q < p /\ g = p - q
    BY <2>2
  <2>4. ASSUME NEW r \in supported, r < p PROVE r <= q
    <3>1. p - r \in gaps
      BY <2>4
    <3> QED
      BY <2>2, <2>3, <2>4, <3>1
  <2> DEFINE h == CHOOSE k \in supported : k < p /\ \A r \in supported : r < p => r <= k
  <2>5. h \in supported /\ h < p
    BY <2>3, <2>4
  <2> QED
    BY <1>2, <2>5 DEF highest_supported_below
<1> QED
  BY <1>1, <1>2

-----------------------------------------------------------------------------
(* The invariant is inductive.                                             *)

LEMMA InitRate == Init => RateInv
<1> SUFFICES ASSUME Init PROVE RateInv
  OBVIOUS
<1> USE RateAssumption
<1>1. 0 \in Profiles
  BY DEF RateAssumption, Profiles
<1>2. <<>> \in Seq([nonce : Nat, profile : Profiles])
  OBVIOUS
<1> QED
  BY <1>1, <1>2 DEF Init, RateInv, Types, OwnEcho, ProbedBelow, BelowStable, NewController, Profiles

\* A calibration starts from nothing.
LEMMA CalibrateRate == Calibrate => RateInv'
<1> SUFFICES ASSUME Calibrate PROVE RateInv'
  OBVIOUS
<1>1. 0 \in Profiles
  BY RateAssumption DEF RateAssumption, Profiles
<1>2. <<>> \in Seq([nonce : Nat, profile : Profiles])
  OBVIOUS
<1> QED
  BY <1>1, <1>2 DEF Calibrate, RateInv, Types, OwnEcho, ProbedBelow, BelowStable, NewController, Profiles

\* record_loss and record_success stay below the stable profile.
LEMMA LossBelow ==
    ASSUME RateInv, phase = "run", NEW c, c \in {record_loss(ctl), record_success(ctl)}
    PROVE  /\ c \in [highest_stable : Profiles, active : Profiles, supported : SUBSET Profiles,
                     consecutive_losses : Nat, downshift_count : Nat]
           /\ c.highest_stable = ctl.highest_stable /\ c.supported = ctl.supported
           /\ c.active # 0 => c.active \in mask /\ c.active < c.highest_stable
<1> USE RateAssumption
<1> DEFINE h == highest_supported_below(ctl.active, ctl.supported)
<1>1. /\ ctl \in [highest_stable : Profiles, active : Profiles, supported : SUBSET Profiles,
                  consecutive_losses : Nat, downshift_count : Nat]
      /\ ctl.supported \subseteq mask /\ mask \subseteq Profiles
      /\ ctl.active # 0 => ctl.active \in mask /\ ctl.active < ctl.highest_stable
  BY DEF RateInv, Types, BelowStable
<1>2. Profiles \subseteq Nat /\ 0 \in Profiles
  BY DEF Profiles, RateAssumption
<1>3. h # 0 => h \in ctl.supported /\ h < ctl.active
  BY <1>1, <1>2, HighestBelow
<1>4. h \in Profiles /\ (h # 0 => h \in mask)
  BY <1>1, <1>2, <1>3
<1>9. /\ ctl.active \in Nat /\ ctl.highest_stable \in Nat /\ ctl.downshift_count + 1 \in Nat
      /\ 0 \in Nat
  <2>1. ctl.active \in Profiles /\ ctl.highest_stable \in Profiles /\ ctl.downshift_count \in Nat
    BY <1>1
  <2>2. ctl.active \in Nat /\ ctl.highest_stable \in Nat
    BY <1>2, <2>1
  <2> QED
    BY <2>1, <2>2
<1> HIDE DEF h
<1>5. CASE c = record_success(ctl)
  BY <1>1, <1>5 DEF record_success
<1>6. CASE c = record_loss(ctl) /\ ctl.consecutive_losses + 1 < LossLimit
  BY <1>1, <1>6 DEF record_loss
<1>7. CASE c = record_loss(ctl) /\ ~(ctl.consecutive_losses + 1 < LossLimit) /\ ctl.active > 0
  <2>1. c = [ctl EXCEPT !.consecutive_losses = 0, !.active = h,
                        !.downshift_count = ctl.downshift_count + 1]
    BY <1>1, <1>7 DEF record_loss, h
  <2> QED
    <3>1. c.active = h /\ c.highest_stable = ctl.highest_stable /\ c.supported = ctl.supported
      BY <1>1, <2>1
    <3>2. c \in [highest_stable : Profiles, active : Profiles, supported : SUBSET Profiles,
                 consecutive_losses : Nat, downshift_count : Nat]
      BY <1>1, <1>4, <2>1, <1>9
    <3>3. h # 0 => h \in mask /\ h < ctl.highest_stable
      BY <1>1, <1>2, <1>3, <1>4, <1>7, <1>9
    <3> QED
      BY <3>1, <3>2, <3>3
<1>8. CASE c = record_loss(ctl) /\ ~(ctl.consecutive_losses + 1 < LossLimit) /\ ~(ctl.active > 0)
  <2>1. c = [ctl EXCEPT !.consecutive_losses = 0]
    BY <1>1, <1>8 DEF record_loss
  <2> QED
    BY <1>1, <1>2, <1>8, <2>1
<1> QED
  BY <1>5, <1>6, <1>7, <1>8

\* The steps of the running link.
LEMMA RunRate ==
    ASSUME RateInv, SendData \/ AckData \/ RetransmitTimeout \/ Reset
    PROVE  RateInv'
<1>1. CASE SendData
  BY <1>1 DEF SendData, calibration, RateInv, Types, OwnEcho, ProbedBelow, BelowStable
<1>2. ASSUME phase = "run", ctl' \in {record_loss(ctl), record_success(ctl)},
             UNCHANGED <<phase, mask, calibration>>
      PROVE  RateInv'
  BY <1>2, LossBelow DEF calibration, RateInv, Types, OwnEcho, ProbedBelow, BelowStable
<1>3. CASE AckData
  BY <1>2, <1>3 DEF AckData
<1>4. CASE RetransmitTimeout
  BY <1>2, <1>4, CalibrateRate DEF RetransmitTimeout
<1>5. CASE Reset
  BY <1>5, CalibrateRate DEF Reset
<1> QED
  BY <1>1, <1>3, <1>4, <1>5

\* The steps of one attempt.
LEMMA ProbeRate ==
    ASSUME RateInv, SendProbe \/ Echo \/ ProbeTimeout \/ WarmupDone
    PROVE  RateInv'
<1> DEFINE Probe == [nonce : Nat, profile : Profiles]
<1>0. /\ echoes \in Seq(Probe) /\ nonce \in Nat /\ profile \in Profiles
  BY DEF RateInv, Types
<1>1. CASE SendProbe
  <2>1. echoes' \in Seq(Probe)
    <3>1. [nonce |-> nonce, profile |-> profile] \in Probe
      BY <1>0
    <3> HIDE DEF Probe
    <3> QED
      BY <1>0, <1>1, <3>1 DEF SendProbe
  <2> QED
    BY <1>1, <2>1 DEF SendProbe, RateInv, Types, OwnEcho, ProbedBelow, BelowStable
<1>2. CASE Echo
  <2>1. echoes' \in Seq(Probe) /\ Head(echoes) \in Probe
    <3> HIDE DEF Probe
    <3> QED
      BY <1>0, <1>2 DEF Echo
  <2>2. rate_probe_ack_matches(Head(echoes)) =>
            Head(echoes) = [nonce |-> nonce, profile |-> profile]
    BY <1>0, <2>1 DEF rate_probe_ack_matches
  <2>3. /\ successes' \in Nat /\ answered' \in Nat /\ attempt' \in Nat /\ nonce' \in Nat
        /\ successes' = answered'
    <3>0. /\ successes \in Nat /\ answered \in Nat /\ attempt \in Nat /\ nonce \in Nat
          /\ successes = answered
      BY DEF RateInv, Types, OwnEcho
    <3>1. CASE rate_probe_ack_matches(Head(echoes))
      BY <1>2, <2>2, <3>0, <3>1 DEF Echo
    <3>2. CASE ~rate_probe_ack_matches(Head(echoes))
      BY <1>2, <3>0, <3>2 DEF Echo
    <3> QED
      BY <3>1, <3>2
  <2>4. UNCHANGED <<phase, mask, ctl, profile, passed>>
    BY <1>2 DEF Echo
  <2> QED
    BY <2>1, <2>3, <2>4 DEF RateInv, Types, OwnEcho, ProbedBelow, BelowStable
<1>3. CASE ProbeTimeout
  BY <1>3 DEF ProbeTimeout, RateInv, Types, OwnEcho, ProbedBelow, BelowStable
<1>4. CASE WarmupDone
  BY <1>4 DEF WarmupDone, RateInv, Types, OwnEcho, ProbedBelow, BelowStable
<1> QED
  BY <1>1, <1>2, <1>3, <1>4

\* A profile that passed or is borderline is marked stable.
LEMMA MarkStable ==
    ASSUME RateInv, ctl' = mark_profile_stable_with_mask(profile), phase = "probe", mask' = mask
    PROVE  /\ ctl' \in [highest_stable : Profiles, active : Profiles, supported : SUBSET Profiles,
                        consecutive_losses : Nat, downshift_count : Nat]
           /\ ctl'.highest_stable = profile /\ ctl'.supported = mask
           /\ ctl'.active # 0 => ctl'.active \in mask /\ ctl'.active < profile
<1> DEFINE h == highest_supported_below(profile, mask \cup {0})
<1>1. mask \subseteq Profiles /\ mask \cup {0} = mask /\ profile \in mask
  BY DEF RateInv, Types
<1>2. Profiles \subseteq Nat /\ 0 \in Profiles
  BY RateAssumption DEF Profiles, RateAssumption
<1>3. h # 0 => h \in mask /\ h < profile
  BY <1>1, <1>2, HighestBelow
<1>4. h \in Profiles
  BY <1>1, <1>2, <1>3
<1>5. ctl' = [highest_stable |-> profile, active |-> h, supported |-> mask,
              consecutive_losses |-> 0, downshift_count |-> 0]
  BY <1>1 DEF mark_profile_stable_with_mask, NewController
<1> HIDE DEF h
<1> QED
  BY <1>1, <1>2, <1>3, <1>4, <1>5

LEMMA ProfileDoneRate ==
    ASSUME RateInv, ProfileDone
    PROVE  RateInv'
<1> USE RateAssumption
<1>1. /\ phase = "probe" /\ attempt' = 0 /\ successes' = 0 /\ answered' = 0
      /\ UNCHANGED <<mask, nonce, echoes>>
  BY DEF ProfileDone
<1>2. Profiles \subseteq Nat /\ mask \subseteq Profiles /\ profile \in mask
  BY DEF Profiles, RateAssumption, RateInv, Types
<1>3. CASE successes = ProbeAttempts
  <2>1. /\ ctl' = mark_profile_stable_with_mask(profile) /\ ToNextProfile
        /\ passed' = passed \cup {profile}
    BY <1>3 DEF ProfileDone, RateInv, OwnEcho
  <2>2. \A p \in mask : p < profile => p \in passed
    BY <1>1 DEF RateInv, ProbedBelow
  <2>3. CASE Higher = {}
    BY <1>1, <1>2, <2>1, <2>2, <2>3, MarkStable
       DEF ToNextProfile, RateInv, Types, OwnEcho, ProbedBelow, BelowStable
  <2>4. CASE Higher # {}
    <3>1. \E p \in Higher : \A q \in Higher : p <= q
      BY <1>2, <2>4, Least DEF Higher
    <3>2. profile' \in Higher /\ (\A q \in Higher : profile' <= q) /\ phase' = phase
      BY <2>1, <2>4, <3>1 DEF ToNextProfile
    <3>3. profile' \in mask /\ profile' > profile /\ profile' # 0
      BY <1>2, <3>2 DEF Higher
    <3>4. \A p \in mask : p < profile' => p \in passed'
      <4> SUFFICES ASSUME NEW p \in mask, p < profile' PROVE p \in passed'
        OBVIOUS
      <4>1. p <= profile
        BY <1>2, <3>2 DEF Higher
      <4> QED
        BY <1>2, <2>1, <2>2, <4>1
    <3> QED
      BY <1>1, <1>2, <2>1, <2>2, <3>2, <3>3, <3>4, MarkStable
         DEF RateInv, Types, OwnEcho, ProbedBelow, BelowStable
  <2> QED
    BY <2>3, <2>4
<1>4. CASE successes = 2 /\ successes # ProbeAttempts
  <2>1. /\ ctl' = mark_profile_stable_with_mask(profile) /\ phase' = "run"
        /\ UNCHANGED <<profile, passed>>
    BY <1>4 DEF ProfileDone
  <2> QED
    BY <1>1, <1>2, <2>1, MarkStable DEF RateInv, Types, OwnEcho, ProbedBelow, BelowStable
<1>5. CASE successes # 2 /\ successes # ProbeAttempts
  <2>1. /\ phase' = IF profile = 0 THEN "failed" ELSE "run"
        /\ UNCHANGED <<ctl, profile, passed>>
    BY <1>5 DEF ProfileDone
  <2> QED
    BY <1>1, <2>1 DEF RateInv, Types, OwnEcho, ProbedBelow, BelowStable
<1> QED
  BY <1>3, <1>4, <1>5

LEMMA NextRate == RateInv /\ [Next]_vars => RateInv'
<1> SUFFICES ASSUME RateInv, [Next]_vars PROVE RateInv'
  OBVIOUS
<1>1. CASE UNCHANGED vars
  BY <1>1 DEF vars, calibration, RateInv, Types, OwnEcho, ProbedBelow, BelowStable
<1> QED
  BY <1>1, RunRate, ProbeRate, ProfileDoneRate DEF Next

\* The invariant of the calibration: whatever is echoed late or lost, the
\* profiles below the one at hand have passed all their own probes.
THEOREM RateInvariance == Spec => []RateInv
BY InitRate, NextRate, PTL DEF Spec

\* The profile in use is the slowest one, or a supported one all of whose
\* probes their own echoes answered and which lies below the fastest stable,
\* possibly borderline, profile, for every set of profiles and after any
\* number of losses.
THEOREM ActiveProvenHolds == Spec => []ActiveProven
<1>1. RateInv => ActiveProven
  <2> SUFFICES ASSUME RateInv, phase = "run", ctl.active > 0
               PROVE  ctl.active \in mask /\ ctl.active \in passed /\ ctl.active < ctl.highest_stable
    BY DEF ActiveProven
  <2>1. ctl.active # 0
    BY RateAssumption DEF RateInv, Types, Profiles, RateAssumption
  <2> QED
    BY <2>1 DEF RateInv, ProbedBelow, BelowStable
<1> QED
  BY <1>1, RateInvariance, PTL
=============================================================================

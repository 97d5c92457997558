---------------------------- MODULE AlertProofs ----------------------------
(***************************************************************************)
(* Which alerts are raised, and which are sent.                            *)
(*                                                                         *)
(* The cooldown, and the alert manager around it, for every configuration, *)
(* every set of identities and every bound: alerts of one identity are     *)
(* spaced and suppressions justified, in the chat too and over restarts,   *)
(* messages go where the routes say, and the Go agent agrees with the C++  *)
(* agent when no cooldown is switched off.                                 *)
(*                                                                         *)
(* The health monitors, for every /proc/meminfo, every list of paths,      *)
(* services and sites, and whatever happens during the check: what they    *)
(* report is what the configured thresholds and the world say.             *)
(***************************************************************************)
EXTENDS AlertManager, HealthMonitors, SequenceFacts, TLAPS

(* What a step does to the cooldown, whatever bounds the alerts. *)
CooldownStep == Tick \/ \E id \in Ids : ShouldSend(id)

(* Every class has an integer number of seconds. *)
LEMMA SecondsInt == \A type : CooldownSecondsFor(type) \in Int
  BY CooldownAssumption DEF CooldownSecondsFor

(* What a step that lets an alert through, or withholds one, appends. *)
LEMMA RecordType ==
  ASSUME NEW id \in Ids, now \in Time
  PROVE  Record(id) \in Records /\ Record(id).id = id /\ Record(id).at = now
  BY DEF Record, Records

(* The records of a history have an identity and an integer time. *)
LEMMA RecordTimes ==
  ASSUME NEW s \in Seq(Records)
  PROVE  \A i \in 1..Len(s) :
           s[i] \in Records /\ s[i].at \in Int /\ s[i].id \in Ids
<1>1. \A r \in Records : r.at \in Int /\ r.id \in Ids
  BY CooldownAssumption DEF Records, Time
<1>2. \A i \in 1..Len(s) : s[i] \in Records
  OBVIOUS
<1> QED
  BY <1>1, <1>2

(* The manager starts in the inductive invariant. *)
LEMMA InitCooldown == CooldownInit => CooldownIInv
  BY CooldownAssumption
     DEF CooldownInit, CooldownIInv, CooldownTypeOK, MapIsLastSent, Spacing,
         SuppressionJustified, Time, Records

(* Every decision, and the clock, keeps the types. *)
LEMMA NextType == CooldownIInv /\ [CooldownStep]_cooldownVars => CooldownTypeOK'
<1> SUFFICES ASSUME CooldownIInv, [CooldownStep]_cooldownVars
             PROVE  CooldownTypeOK'
  OBVIOUS
<1> USE DEF CooldownIInv, CooldownTypeOK
<1>1. CASE Tick
  BY <1>1, CooldownAssumption DEF Tick, Time
<1>2. ASSUME NEW id \in Ids, SendUnlimited(id) PROVE CooldownTypeOK'
  BY <1>2, RecordType, AppendFacts DEF SendUnlimited
<1>3. ASSUME NEW id \in Ids, SendDue(id) PROVE CooldownTypeOK'
  <2>1. sent' \in Seq(Records)
    BY <1>3, RecordType, AppendFacts DEF SendDue
  <2> QED
    BY <1>3, <2>1 DEF SendDue
<1>4. ASSUME NEW id \in Ids, Suppress(id) PROVE CooldownTypeOK'
  BY <1>4, RecordType, AppendFacts DEF Suppress
<1>5. CASE UNCHANGED cooldownVars
  BY <1>5 DEF cooldownVars
<1> QED
  BY <1>1, <1>2, <1>3, <1>4, <1>5 DEF CooldownStep, ShouldSend

(* Letting an alert of identity id through, now, in the two ways there are. *)
LEMMA Grown ==
  ASSUME CooldownIInv, NEW id \in Ids, sent' = Append(sent, Record(id))
  PROVE  /\ Len(sent') = Len(sent) + 1
         /\ Len(sent) \in Nat
         /\ \A i \in 1..Len(sent) : /\ sent'[i] = sent[i]
                                    /\ sent[i] \in Records
                                    /\ sent[i].at \in Int
         /\ sent'[Len(sent) + 1] = Record(id)
         /\ Record(id).id = id /\ Record(id).at = now
         /\ now \in Int
<1>1. sent \in Seq(Records) /\ now \in Time
  BY DEF CooldownIInv, CooldownTypeOK
<1>2. Record(id) \in Records /\ Record(id).id = id /\ Record(id).at = now
  BY <1>1, RecordType
<1>3. /\ Len(Append(sent, Record(id))) = Len(sent) + 1
      /\ \A i \in 1..Len(sent) : Append(sent, Record(id))[i] = sent[i]
      /\ Append(sent, Record(id))[Len(sent) + 1] = Record(id)
  BY <1>1, <1>2, AppendFacts
<1>4. \A i \in 1..Len(sent) : sent[i] \in Records /\ sent[i].at \in Int
  BY <1>1, RecordTimes
<1> QED
  BY <1>1, <1>2, <1>3, <1>4, CooldownAssumption DEF Time

(* last_sent_ keeps naming the last alert of each limited identity. *)
LEMMA NextMap == CooldownIInv /\ [CooldownStep]_cooldownVars => MapIsLastSent'
<1> SUFFICES ASSUME CooldownIInv, [CooldownStep]_cooldownVars
             PROVE  MapIsLastSent'
  OBVIOUS
<1>0. /\ MapIsLastSent
      /\ now \in Int /\ DOMAIN lastSent \subseteq Ids
      /\ \A id \in DOMAIN lastSent : lastSent[id] \in Int /\ ~Unlimited(id)
      /\ \A i \in 1..Len(sent) : sent[i].at \in Int
  <2>1. \A i \in 1..Len(sent) : sent[i].at \in Int
    BY RecordTimes DEF CooldownIInv, CooldownTypeOK
  <2>2. now \in Int /\ \A id \in DOMAIN lastSent : lastSent[id] \in Int
    BY CooldownAssumption DEF CooldownIInv, CooldownTypeOK, Time
  <2> QED
    BY <2>1, <2>2 DEF CooldownIInv, CooldownTypeOK
<1>1. CASE Tick
  BY <1>0, <1>1 DEF Tick, MapIsLastSent
<1>2. ASSUME NEW id \in Ids, SendUnlimited(id) PROVE MapIsLastSent'
  <2>1. sent' = Append(sent, Record(id)) /\ lastSent' = lastSent /\ now' = now
    BY <1>2 DEF SendUnlimited
  <2>2. ASSUME NEW i \in 1..Len(sent'), ~Unlimited(sent'[i].id)
        PROVE  sent'[i].id \in DOMAIN lastSent /\ sent'[i].at <= lastSent[sent'[i].id]
    <3>1. i # Len(sent) + 1
      BY <1>2, <2>1, <2>2, Grown DEF SendUnlimited
    <3>2. i \in 1..Len(sent)
      BY <2>1, <3>1, Grown
    <3> QED
      BY <1>0, <2>1, <2>2, <3>2, Grown DEF MapIsLastSent
  <2>3. ASSUME NEW x \in DOMAIN lastSent
        PROVE  \E i \in 1..Len(sent') : sent'[i] = [id |-> x, at |-> lastSent[x]]
    <3>1. PICK i \in 1..Len(sent) : sent[i] = [id |-> x, at |-> lastSent[x]]
      BY <1>0 DEF MapIsLastSent
    <3>2. i \in 1..Len(sent') /\ sent'[i] = sent[i]
      BY <2>1, Grown
    <3> QED
      BY <3>1, <3>2
  <2> QED
    BY <1>0, <2>1, <2>2, <2>3 DEF MapIsLastSent
<1>3. ASSUME NEW id \in Ids, SendDue(id) PROVE MapIsLastSent'
  <2>1. sent' = Append(sent, Record(id)) /\ now' = now
    BY <1>3 DEF SendDue
  <2>2. /\ DOMAIN lastSent' = DOMAIN lastSent \cup {id}
        /\ lastSent'[id] = now
        /\ \A x \in DOMAIN lastSent : x # id => lastSent'[x] = lastSent[x]
    BY <1>3 DEF SendDue
  <2>3. ASSUME NEW i \in 1..Len(sent'), ~Unlimited(sent'[i].id)
        PROVE  sent'[i].id \in DOMAIN lastSent' /\ sent'[i].at <= lastSent'[sent'[i].id]
    <3>1. CASE i = Len(sent) + 1
      BY <2>1, <2>2, <3>1, Grown
    <3>2. CASE i \in 1..Len(sent)
      <4>1. sent'[i] = sent[i] /\ sent[i].at \in Int
        BY <2>1, <3>2, Grown
      <4>2. /\ sent[i].id \in DOMAIN lastSent
            /\ sent[i].at <= lastSent[sent[i].id]
            /\ lastSent[sent[i].id] <= now
        BY <1>0, <2>3, <3>2, <4>1 DEF MapIsLastSent
      <4>3. lastSent[sent[i].id] \in Int
        BY <1>0, <4>2
      <4> QED
        BY <1>0, <2>2, <4>1, <4>2, <4>3
    <3> QED
      BY <2>1, <3>1, <3>2, Grown
  <2>4. ASSUME NEW x \in DOMAIN lastSent'
        PROVE  /\ lastSent'[x] <= now
               /\ \E i \in 1..Len(sent') : sent'[i] = [id |-> x, at |-> lastSent'[x]]
    <3>1. CASE x = id
      <4>1. Len(sent) + 1 \in 1..Len(sent') /\ sent'[Len(sent) + 1] = Record(id)
        BY <2>1, Grown
      <4>2. Record(id) = [id |-> x, at |-> lastSent'[x]]
        BY <2>2, <3>1 DEF Record
      <4> QED
        BY <1>0, <2>2, <3>1, <4>1, <4>2
    <3>2. CASE x # id
      <4>1. x \in DOMAIN lastSent /\ lastSent'[x] = lastSent[x]
        BY <2>2, <3>2
      <4>2. PICK i \in 1..Len(sent) : sent[i] = [id |-> x, at |-> lastSent[x]]
        BY <1>0, <4>1 DEF MapIsLastSent
      <4>3. i \in 1..Len(sent') /\ sent'[i] = sent[i]
        BY <2>1, Grown
      <4> QED
        BY <1>0, <4>1, <4>2, <4>3 DEF MapIsLastSent
    <3> QED
      BY <3>1, <3>2
  <2> QED
    BY <2>1, <2>3, <2>4 DEF MapIsLastSent
<1>4. ASSUME NEW id \in Ids, Suppress(id) PROVE MapIsLastSent'
  BY <1>0, <1>4 DEF Suppress, MapIsLastSent
<1>5. CASE UNCHANGED cooldownVars
  BY <1>0, <1>5 DEF cooldownVars, MapIsLastSent
<1> QED
  BY <1>1, <1>2, <1>3, <1>4, <1>5 DEF CooldownStep, ShouldSend

(* The alert let through now is far enough from those before. *)
LEMMA NextSpacing == CooldownIInv /\ [CooldownStep]_cooldownVars => Spacing'
<1> SUFFICES ASSUME CooldownIInv, [CooldownStep]_cooldownVars PROVE Spacing'
  OBVIOUS
<1>0. Spacing /\ MapIsLastSent /\ now \in Int
  BY CooldownAssumption DEF CooldownIInv, CooldownTypeOK, Time
<1>1. CASE sent' = sent
  BY <1>0, <1>1 DEF Spacing
<1>2. ASSUME NEW id \in Ids, sent' = Append(sent, Record(id)),
             Unlimited(id) \/ Due(id)
      PROVE  Spacing'
  <2> SUFFICES ASSUME NEW i \in 1..Len(sent'), NEW j \in 1..Len(sent'),
                      i < j, sent'[i].id = sent'[j].id, ~Unlimited(sent'[i].id)
               PROVE  sent'[j].at - sent'[i].at >= CooldownSecondsFor(sent'[i].id[1])
    BY DEF Spacing
  <2>1. i \in 1..Len(sent) /\ sent'[i] = sent[i] /\ sent[i].at \in Int
    BY <1>2, Grown
  <2>2. CASE j \in 1..Len(sent)
    BY <1>0, <1>2, <2>1, <2>2, Grown DEF Spacing
  <2>3. CASE j = Len(sent) + 1
    <3>1. sent'[j].id = id /\ sent'[j].at = now /\ sent[i].id = id
      BY <1>2, <2>1, <2>3, Grown
    <3>2. id \in DOMAIN lastSent /\ sent[i].at <= lastSent[id]
      BY <1>0, <2>1, <3>1 DEF MapIsLastSent
    <3>3. now - lastSent[id] >= CooldownSecondsFor(id[1])
      BY <1>2, <2>1, <3>1, <3>2 DEF Due
    <3>4. lastSent[id] \in Int
      BY <3>2, CooldownAssumption DEF CooldownIInv, CooldownTypeOK, Time
    <3> QED
      BY <1>0, <2>1, <3>1, <3>2, <3>3, <3>4, SecondsInt
  <2> QED
    BY <1>2, <2>2, <2>3, Grown
<1> QED
  BY <1>1, <1>2
     DEF CooldownStep, ShouldSend, Tick, SendUnlimited, SendDue, Suppress,
         cooldownVars

(* A suppression stays justified, and a new one is by the map's entry. *)
LEMMA NextJustified ==
  CooldownIInv /\ [CooldownStep]_cooldownVars => SuppressionJustified'
<1> SUFFICES ASSUME CooldownIInv, [CooldownStep]_cooldownVars
             PROVE  SuppressionJustified'
  OBVIOUS
<1> DEFINE Covers(r, t) ==
      /\ r.id = t.id /\ r.at <= t.at
      /\ t.at - r.at < CooldownSecondsFor(r.id[1])
<1>0. SuppressionJustified /\ MapIsLastSent /\ suppressed \in Seq(Records)
  BY DEF CooldownIInv, CooldownTypeOK
<1>1. CASE sent' = sent /\ suppressed' = suppressed
  BY <1>0, <1>1 DEF SuppressionJustified
<1>2. ASSUME NEW id \in Ids, sent' = Append(sent, Record(id)),
             suppressed' = suppressed
      PROVE  SuppressionJustified'
  <2>1. ASSUME NEW k \in 1..Len(suppressed)
        PROVE  /\ ~Unlimited(suppressed[k].id)
               /\ \E j \in 1..Len(sent') : Covers(sent'[j], suppressed[k])
    <3>1. PICK j \in 1..Len(sent) : Covers(sent[j], suppressed[k])
      BY <1>0 DEF SuppressionJustified
    <3>2. j \in 1..Len(sent') /\ sent'[j] = sent[j]
      BY <1>2, Grown
    <3>3. Covers(sent'[j], suppressed[k])
      BY <3>1, <3>2
    <3> QED
      BY <1>0, <3>2, <3>3 DEF SuppressionJustified
  <2> QED
    BY <1>2, <2>1 DEF SuppressionJustified
<1>3. ASSUME NEW id \in Ids, Suppress(id) PROVE SuppressionJustified'
  <2>1. /\ sent' = sent
        /\ Len(suppressed') = Len(suppressed) + 1
        /\ \A k \in 1..Len(suppressed) : suppressed'[k] = suppressed[k]
        /\ suppressed'[Len(suppressed) + 1] = Record(id)
        /\ Record(id).id = id /\ Record(id).at = now
        /\ Len(suppressed) \in Nat
    BY <1>0, <1>3, RecordType, AppendFacts
       DEF Suppress, CooldownIInv, CooldownTypeOK
  <2>2. \E j \in 1..Len(sent) : Covers(sent[j], Record(id))
    <3>1. id \in DOMAIN lastSent /\ ~(now - lastSent[id] >= CooldownSecondsFor(id[1]))
      BY <1>3 DEF Suppress, Due
    <3>2. PICK j \in 1..Len(sent) : sent[j] = [id |-> id, at |-> lastSent[id]]
      BY <1>0, <3>1 DEF MapIsLastSent
    <3>3. sent[j].id = id /\ sent[j].at = lastSent[id]
      BY <3>2
    <3>4. lastSent[id] <= now /\ now \in Int /\ lastSent[id] \in Int
      <4>1. lastSent[id] <= now
        BY <1>0, <3>1 DEF MapIsLastSent
      <4>2. now \in Time /\ lastSent[id] \in Time
        BY <3>1 DEF CooldownIInv, CooldownTypeOK
      <4> QED
        BY <4>1, <4>2, CooldownAssumption DEF Time
    <3>5. now - lastSent[id] < CooldownSecondsFor(id[1])
      BY <3>1, <3>4, SecondsInt
    <3> QED
      BY <2>1, <3>3, <3>4, <3>5
  <2>3. ASSUME NEW k \in 1..Len(suppressed')
        PROVE  /\ ~Unlimited(suppressed'[k].id)
               /\ \E j \in 1..Len(sent) : Covers(sent[j], suppressed'[k])
    <3>1. CASE k \in 1..Len(suppressed)
      <4>1. suppressed'[k] = suppressed[k]
        BY <2>1, <3>1
      <4>2. ~Unlimited(suppressed[k].id)
        BY <1>0, <3>1 DEF SuppressionJustified
      <4>3. PICK j \in 1..Len(sent) : Covers(sent[j], suppressed[k])
        BY <1>0, <3>1 DEF SuppressionJustified
      <4> QED
        BY <4>1, <4>2, <4>3
    <3>2. CASE k = Len(suppressed) + 1
      BY <1>3, <2>1, <2>2, <3>2 DEF Suppress
    <3>3. k \in 1..Len(suppressed) \/ k = Len(suppressed) + 1
      <4>1. Len(suppressed') = Len(suppressed) + 1 /\ Len(suppressed) \in Nat
        BY <2>1
      <4> QED
        BY <4>1
    <3> QED
      BY <3>1, <3>2, <3>3
  <2> QED
    BY <2>1, <2>3 DEF SuppressionJustified
<1> QED
  BY <1>1, <1>2, <1>3
     DEF CooldownStep, ShouldSend, Tick, SendUnlimited, SendDue, cooldownVars

(* Every step keeps the inductive invariant. *)
LEMMA NextCooldown == CooldownIInv /\ [CooldownStep]_cooldownVars => CooldownIInv'
  BY NextType, NextMap, NextSpacing, NextJustified DEF CooldownIInv

(* The inductive invariant holds in every reachable state. *)
THEOREM CooldownInvariant == CooldownSpec => []CooldownIInv
  <1>1. [CooldownNext]_cooldownVars => [CooldownStep]_cooldownVars
  BY DEF CooldownNext, CooldownStep
<1> QED
  BY InitCooldown, NextCooldown, <1>1, PTL DEF CooldownSpec

(* The map, the clock and the histories keep their types. *)
THEOREM CooldownTypeCorrect == CooldownSpec => []CooldownTypeOK
<1>1. CooldownIInv => CooldownTypeOK
  BY DEF CooldownIInv
<1> QED
  BY CooldownInvariant, <1>1, PTL

(* Alerts of one limited identity are at least its cooldown apart. *)
THEOREM AlertsSpaced == CooldownSpec => []Spacing
<1>1. CooldownIInv => Spacing
  BY DEF CooldownIInv
<1> QED
  BY CooldownInvariant, <1>1, PTL

(* Nothing is suppressed but a repetition within its own cooldown. *)
THEOREM SuppressionsJustified == CooldownSpec => []SuppressionJustified
<1>1. CooldownIInv => SuppressionJustified
  BY DEF CooldownIInv
<1> QED
  BY CooldownInvariant, <1>1, PTL

----------------------------------------------------------------------------
(* The two agents *)

(* No class of a type that is raised is switched off. *)
AllLimited == \A type \in Types : Bypass(type) \/ CooldownSecondsFor(type) > 0

(* With every cooldown positive, one alert gets the same answer in both    *)
(* agents, if their records were the same before.                          *)
LEMMA SameDecision ==
  ASSUME AllLimited, ParityIInv, CooldownTypeOK, NEW id \in Ids,
         ShouldSend(id), GoShouldSend(id),
         agreed' = (agreed /\ (GoWithholds(id) <=> sent' = sent))
  PROVE  ParityIInv'
<1>1. /\ id[1] \in Types
      /\ CooldownSecondsFor(id[1]) \in Int
      /\ ~Bypass(id[1]) => CooldownSecondsFor(id[1]) > 0
  BY SecondsInt DEF AllLimited, Ids
<1>2. ~Bypass(id[1]) => Duration(id[1]) = CooldownSecondsFor(id[1])
  BY <1>1 DEF Duration, Seconds, CooldownSecondsFor
<1>3. /\ sentAt = lastSent
      /\ now \in Int
      /\ \A x \in DOMAIN lastSent : lastSent[x] \in Int
      /\ sent \in Seq(Records)
  BY CooldownAssumption DEF ParityIInv, SameRecord, CooldownTypeOK, Time
<1>4. Append(sent, Record(id)) # sent
  <2>1. Record(id) \in Records
    BY RecordType DEF CooldownTypeOK
  <2>2. Len(Append(sent, Record(id))) = Len(sent) + 1 /\ Len(sent) \in Nat
    BY <1>3, <2>1, AppendFacts
  <2> QED
    BY <2>2
<1>5. Unlimited(id) <=> Bypass(id[1])
  BY <1>1 DEF Unlimited
<1>6. GoWithholds(id) <=> ~Unlimited(id) /\ ~Due(id)
  BY <1>1, <1>2, <1>3, <1>5 DEF GoWithholds, Due
<1>7. CASE SendUnlimited(id)
  <2>1. agreed'
    BY <1>4, <1>6, <1>7 DEF SendUnlimited, ParityIInv, SameAnswers
  <2> QED
    BY <1>3, <1>5, <1>7, <2>1
       DEF SendUnlimited, GoShouldSend, ParityIInv, SameAnswers, SameRecord
<1>8. CASE SendDue(id)
  <2>1. agreed'
    BY <1>4, <1>6, <1>8 DEF SendDue, ParityIInv, SameAnswers
  <2>2. ~Bypass(id[1]) /\ ~GoWithholds(id)
    BY <1>5, <1>6, <1>8 DEF SendDue
  <2> QED
    BY <1>3, <1>8, <2>1, <2>2
       DEF SendDue, GoShouldSend, ParityIInv, SameAnswers, SameRecord
<1>9. CASE Suppress(id)
  <2>1. GoWithholds(id)
    BY <1>6, <1>9 DEF Suppress
  <2> QED
    BY <1>3, <1>9, <2>1
       DEF Suppress, GoShouldSend, ParityIInv, SameAnswers, SameRecord
<1> QED
  BY <1>7, <1>8, <1>9 DEF ShouldSend

(* The Go agent answers as the C++ agent does, for every configuration in  *)
(* which no cooldown is switched off.                                      *)
THEOREM CooldownsAgree == ASSUME AllLimited PROVE ParitySpec => []SameAnswers
<1> DEFINE Inv == CooldownIInv /\ ParityIInv
<1>1. ParityInit => Inv
  BY InitCooldown
     DEF ParityInit, CooldownInit, ParityIInv, SameAnswers, SameRecord
<1>2. Inv /\ [ParityNext]_parityVars => Inv'
  <2> SUFFICES ASSUME Inv, [ParityNext]_parityVars PROVE Inv'
    OBVIOUS
  <2>1. CASE Tick /\ UNCHANGED <<sentAt, agreed>>
    BY <2>1, NextCooldown
       DEF CooldownStep, Tick, ParityIInv, SameAnswers, SameRecord
  <2>2. ASSUME NEW id \in Ids, RaiseInBoth(id) PROVE Inv'
    <3>1. CooldownStep
      BY <2>2 DEF RaiseInBoth, CooldownStep
    <3> QED
      BY <2>2, <3>1, NextCooldown, SameDecision DEF CooldownIInv, RaiseInBoth
  <2>3. CASE UNCHANGED parityVars
    BY <2>3, NextCooldown
       DEF parityVars, cooldownVars, ParityIInv, SameAnswers, SameRecord
  <2> QED
    BY <2>1, <2>2, <2>3 DEF ParityNext
<1>3. Inv => SameAnswers
  BY DEF ParityIInv
<1> QED
  BY <1>1, <1>2, <1>3, PTL DEF ParitySpec

----------------------------------------------------------------------------
(* The alert manager *)

(* What a box holds after a message is added, and before its head is taken.*)
LEMMA ContentsAppend ==
  ASSUME NEW S, NEW box \in Seq(S), NEW m \in S
  PROVE  Contents(Append(box, m)) = Contents(box) \cup {m}
<1>1. /\ Len(Append(box, m)) = Len(box) + 1
      /\ \A i \in 1..Len(box) : Append(box, m)[i] = box[i]
      /\ Append(box, m)[Len(box) + 1] = m
      /\ Len(box) \in Nat
  BY AppendFacts
<1>2. 1..(Len(box) + 1) = 1..Len(box) \cup {Len(box) + 1}
  BY <1>1
<1> QED
  BY <1>1, <1>2 DEF Contents

LEMMA ContentsTail ==
  ASSUME NEW S, NEW box \in Seq(S), box # <<>>
  PROVE  Contents(box) = Contents(Tail(box)) \cup {Head(box)}
<1>1. /\ Head(box) = box[1]
      /\ Len(box) \in Nat \ {0}
      /\ Len(Tail(box)) = Len(box) - 1
      /\ \A i \in 1..Len(Tail(box)) : Tail(box)[i] = box[i + 1]
  BY TailFacts
<1>2. \A i \in 1..Len(box) :
        box[i] = Head(box) \/ (i - 1 \in 1..Len(Tail(box)) /\ box[i] = Tail(box)[i - 1])
  BY <1>1
<1>3. \A i \in 1..Len(Tail(box)) : i + 1 \in 1..Len(box)
  BY <1>1
<1>4. ASSUME NEW e \in Contents(box)
      PROVE  e \in Contents(Tail(box)) \cup {Head(box)}
  <2>1. PICK i \in 1..Len(box) : e = box[i]
    BY DEF Contents
  <2> QED
    BY <1>2, <2>1 DEF Contents
<1>5. ASSUME NEW e \in Contents(Tail(box)) \cup {Head(box)}
      PROVE  e \in Contents(box)
  <2>1. CASE e = Head(box)
    BY <1>1, <2>1 DEF Contents
  <2>2. CASE e \in Contents(Tail(box))
    <3>1. PICK i \in 1..Len(Tail(box)) : e = Tail(box)[i]
      BY <2>2 DEF Contents
    <3> QED
      BY <1>1, <1>3, <3>1 DEF Contents
  <2> QED
    BY <1>5, <2>1, <2>2
<1> QED
  BY <1>4, <1>5

LEMMA ContentsConcat ==
  ASSUME NEW S, NEW a \in Seq(S), NEW b \in Seq(S)
  PROVE  a \o b \in Seq(S) /\ Contents(a \o b) = Contents(a) \cup Contents(b)
<1>1. /\ a \o b \in Seq(S)
      /\ Len(a \o b) = Len(a) + Len(b)
      /\ Len(a) \in Nat /\ Len(b) \in Nat
      /\ \A i \in 1..Len(a) : (a \o b)[i] = a[i]
      /\ \A i \in 1..Len(b) : (a \o b)[i + Len(a)] = b[i]
  OBVIOUS
<1>2. \A i \in 1..Len(a \o b) :
        \/ i \in 1..Len(a)
        \/ i - Len(a) \in 1..Len(b) /\ (a \o b)[i] = b[i - Len(a)]
  BY <1>1
<1>3. \A i \in 1..Len(b) : i + Len(a) \in 1..Len(a \o b)
  BY <1>1
<1>4. \A i \in 1..Len(a) : i \in 1..Len(a \o b)
  BY <1>1
<1>5. ASSUME NEW e \in Contents(a \o b)
      PROVE  e \in Contents(a) \cup Contents(b)
  <2>1. PICK i \in 1..Len(a \o b) : e = (a \o b)[i]
    BY DEF Contents
  <2> QED
    BY <1>1, <1>2, <2>1 DEF Contents
<1>6. ASSUME NEW e \in Contents(a) \cup Contents(b)
      PROVE  e \in Contents(a \o b)
  <2>1. CASE e \in Contents(a)
    <3>1. PICK i \in 1..Len(a) : e = a[i]
      BY <2>1 DEF Contents
    <3> QED
      BY <1>1, <1>4, <3>1 DEF Contents
  <2>2. CASE e \in Contents(b)
    <3>1. PICK i \in 1..Len(b) : e = b[i]
      BY <2>2 DEF Contents
    <3> QED
      BY <1>1, <1>3, <3>1 DEF Contents
  <2> QED
    BY <1>6, <2>1, <2>2
<1> QED
  BY <1>1, <1>5, <1>6

(* The message made of an alert. *)
LEMMA MessageType ==
  ASSUME ManagerTypeOK, NEW id \in Ids
  PROVE  /\ Message(id) \in Messages
         /\ Message(id).id = id /\ Message(id).at = now
         /\ Message(id).life = life
         /\ Message(id).thread = FindThreadId(id[1])
<1>1. FindThreadId(id[1]) \in Topics \cup {General}
  <2>1. \A key \in DOMAIN alertThreads : alertThreads[key] \in Topics
    BY ManagerAssumption DEF ManagerTypeOK
  <2> QED
    BY <2>1 DEF FindThreadId, ManagerTypeOK
<1> QED
  BY <1>1 DEF Message, Messages, ManagerTypeOK, CooldownTypeOK

(* Which alert's handling stands for which step of the cooldown. *)
LEMMA ForwardStep ==
  ASSUME ManagerTypeOK, NEW id \in Ids, Forward(id)
  PROVE  /\ CooldownStep
         /\ Unlimited(id) \/ Due(id)
         /\ Unlimited(id) => lastSent' = lastSent
         /\ ~Unlimited(id) =>
              /\ DOMAIN lastSent' = DOMAIN lastSent \cup {id}
              /\ lastSent'[id] = now
              /\ \A x \in DOMAIN lastSent : x # id => lastSent'[x] = lastSent[x]
         /\ now' = now /\ suppressed' = suppressed /\ life' = life
         /\ chat' = chat /\ UNCHANGED configVars
         /\ \/ inbox' = Append(inbox, Message(id)) /\ missed' = missed
            \/ missed' = Append(missed, Message(id)) /\ inbox' = inbox
         /\ Forwarded' = Forwarded \cup {Message(id)}
<1>1. SendUnlimited(id) \/ SendDue(id)
  BY DEF Forward
<1>2. \/ inbox' = Append(inbox, Message(id)) /\ missed' = missed
      \/ missed' = Append(missed, Message(id)) /\ inbox' = inbox
  BY DEF Forward
<1>3. chat' = chat /\ life' = life /\ UNCHANGED configVars
  BY DEF Forward
<1>4. Forwarded' = Forwarded \cup {Message(id)}
  <2>1. /\ Message(id) \in Messages
        /\ inbox \in Seq(Messages) /\ missed \in Seq(Messages)
    BY MessageType DEF ManagerTypeOK
  <2>2. /\ Contents(Append(inbox, Message(id))) = Contents(inbox) \cup {Message(id)}
        /\ Contents(Append(missed, Message(id))) = Contents(missed) \cup {Message(id)}
    BY <2>1, ContentsAppend
  <2> QED
    BY <1>2, <1>3, <2>2 DEF Forwarded
<1>5. CASE SendUnlimited(id)
  BY <1>2, <1>3, <1>4, <1>5 DEF SendUnlimited, CooldownStep, ShouldSend
<1>6. CASE SendDue(id)
  BY <1>2, <1>3, <1>4, <1>6 DEF SendDue, CooldownStep, ShouldSend
<1> QED
  BY <1>1, <1>5, <1>6

(* A delivery moves the oldest message, and a restart gives up the queue. *)
LEMMA DeliverStep ==
  ASSUME ManagerTypeOK, Deliver
  PROVE  /\ inbox # <<>> /\ inbox' = Tail(inbox)
         /\ \/ chat' = Append(chat, Head(inbox)) /\ missed' = missed
            \/ missed' = Append(missed, Head(inbox)) /\ chat' = chat
         /\ Forwarded' = Forwarded
<1>1. /\ inbox # <<>> /\ inbox' = Tail(inbox)
      /\ \/ chat' = Append(chat, Head(inbox)) /\ missed' = missed
         \/ missed' = Append(missed, Head(inbox)) /\ chat' = chat
  BY DEF Deliver
<1>2. /\ Head(inbox) \in Messages
      /\ inbox \in Seq(Messages) /\ chat \in Seq(Messages) /\ missed \in Seq(Messages)
  BY <1>1, TailFacts DEF ManagerTypeOK
<1>3. /\ Contents(inbox) = Contents(Tail(inbox)) \cup {Head(inbox)}
      /\ Contents(Append(chat, Head(inbox))) = Contents(chat) \cup {Head(inbox)}
      /\ Contents(Append(missed, Head(inbox))) = Contents(missed) \cup {Head(inbox)}
  BY <1>1, <1>2, ContentsAppend, ContentsTail
<1> QED
  BY <1>1, <1>3 DEF Forwarded

LEMMA RestartStep ==
  ASSUME ManagerTypeOK, Restart
  PROVE  /\ Forwarded' = Forwarded
         /\ missed' \in Seq(Messages)
<1>1. missed' = missed \o inbox /\ inbox' = <<>> /\ chat' = chat
  BY DEF Restart
<1>2. inbox \in Seq(Messages) /\ missed \in Seq(Messages)
  BY DEF ManagerTypeOK
<1>3. /\ missed \o inbox \in Seq(Messages)
      /\ Contents(missed \o inbox) = Contents(missed) \cup Contents(inbox)
  BY <1>2, ContentsConcat
<1>4. Contents(inbox') = {}
  BY <1>1 DEF Contents
<1> QED
  BY <1>1, <1>3, <1>4 DEF Forwarded

(* The manager starts in its inductive invariant. *)
LEMMA InitManager == ManagerInit => ManagerIInv
<1> SUFFICES ASSUME ManagerInit PROVE ManagerIInv
  OBVIOUS
<1>1. CooldownIInv
  BY InitCooldown DEF ManagerInit, ParityInit
<1>2. /\ inbox = <<>> /\ chat = <<>> /\ missed = <<>> /\ life = 0
      /\ DOMAIN lastSent = {} /\ suppressed = <<>>
  BY DEF ManagerInit, ParityInit, CooldownInit
<1>3. Forwarded = {}
  BY <1>2 DEF Forwarded, Contents
<1>4. ManagerTypeOK
  BY <1>1, <1>2, ManagerAssumption DEF ManagerInit, ManagerTypeOK, CooldownIInv
<1>5. QueueSpaced /\ ChatSpaced /\ WithheldHasReason
  BY <1>2 DEF QueueSpaced, ChatSpaced, WithheldHasReason
<1>6. MapIsForwarded /\ ForwardedIsMapped
  BY <1>2, <1>3 DEF MapIsForwarded, ForwardedIsMapped
<1> QED
  BY <1>1, <1>4, <1>5, <1>6 DEF ManagerIInv

(* The clock alone. *)
TickOnly == Tick /\ UNCHANGED <<sentAt, agreed, configVars, messageVars, life>>

(* Every step keeps the cooldown's invariant; a restart begins it anew. *)
LEMMA NextManagerCooldown ==
  ManagerIInv /\ [ManagerNext]_managerVars => CooldownIInv'
<1> SUFFICES ASSUME ManagerIInv, [ManagerNext]_managerVars PROVE CooldownIInv'
  OBVIOUS
<1> USE DEF ManagerIInv
<1>1. CASE TickOnly
  BY <1>1, NextCooldown DEF TickOnly, CooldownStep
<1>2. ASSUME NEW id \in Ids, HandleAlert(id) PROVE CooldownIInv'
  <2>1. CooldownStep
    BY <1>2, ForwardStep DEF HandleAlert, Withhold, CooldownStep, ShouldSend
  <2> QED
    BY <2>1, NextCooldown
<1>3. CASE Deliver
  BY <1>3, NextCooldown DEF Deliver, parityVars
<1>4. CASE Restart
  <2>1. /\ now' = now /\ lastSent' = [id \in {} |-> 0]
        /\ sent' = <<>> /\ suppressed' = <<>>
    BY <1>4 DEF Restart
  <2>2. now \in Time
    BY DEF CooldownIInv, CooldownTypeOK
  <2> QED
    BY <2>1, <2>2 DEF CooldownIInv, CooldownTypeOK, MapIsLastSent, Spacing,
                      SuppressionJustified
<1>5. CASE UNCHANGED managerVars
  BY <1>5, NextCooldown DEF managerVars, parityVars
<1> QED
  BY <1>1, <1>2, <1>3, <1>4, <1>5 DEF ManagerNext, TickOnly

(* Every step keeps the types. *)
LEMMA NextManagerType ==
  ManagerIInv /\ [ManagerNext]_managerVars => ManagerTypeOK'
<1> SUFFICES ASSUME ManagerIInv, [ManagerNext]_managerVars PROVE ManagerTypeOK'
  OBVIOUS
<1>0. CooldownTypeOK' /\ ManagerTypeOK
  BY NextManagerCooldown DEF CooldownIInv, ManagerIInv
<1> USE DEF ManagerTypeOK
<1>1. CASE TickOnly
  BY <1>0, <1>1 DEF TickOnly, configVars, messageVars
<1>2. ASSUME NEW id \in Ids, Forward(id) PROVE ManagerTypeOK'
  <2>1. inbox' \in Seq(Messages) /\ missed' \in Seq(Messages)
    <3>1. Message(id) \in Messages
      BY <1>0, MessageType
    <3>2. /\ Append(inbox, Message(id)) \in Seq(Messages)
          /\ Append(missed, Message(id)) \in Seq(Messages)
      BY <1>0, <3>1, AppendFacts
    <3> QED
      BY <1>0, <1>2, <3>2, ForwardStep
  <2> QED
    BY <1>0, <1>2, <2>1, ForwardStep DEF configVars
<1>3. ASSUME NEW id \in Ids, Withhold(id) PROVE ManagerTypeOK'
  BY <1>0, <1>3 DEF Withhold, configVars, messageVars
<1>4. CASE Deliver
  <2>1. /\ Head(inbox) \in Messages /\ Tail(inbox) \in Seq(Messages)
        /\ inbox' = Tail(inbox)
    BY <1>0, <1>4, DeliverStep, TailFacts
  <2>2. chat' \in Seq(Messages) /\ missed' \in Seq(Messages)
    <3>1. /\ Append(chat, Head(inbox)) \in Seq(Messages)
          /\ Append(missed, Head(inbox)) \in Seq(Messages)
      BY <1>0, <2>1, AppendFacts
    <3> QED
      BY <1>0, <1>4, <3>1, DeliverStep
  <2> QED
    BY <1>0, <1>4, <2>1, <2>2 DEF Deliver, configVars
<1>5. CASE Restart
  <2>1. life' \in 0..MaxRestarts
    BY <1>0, <1>5, ManagerAssumption DEF Restart
  <2> QED
    BY <1>0, <1>5, <2>1, RestartStep DEF Restart, configVars
<1>6. CASE UNCHANGED managerVars
  BY <1>0, <1>6 DEF managerVars, configVars, messageVars
<1> QED
  BY <1>1, <1>2, <1>3, <1>4, <1>5, <1>6 DEF ManagerNext, TickOnly, HandleAlert

(* What a step can do to the map, the messages and the configuration: the  *)
(* cases that the proofs below distinguish.                                *)
Quiet == /\ UNCHANGED <<lastSent, suppressed, life, inbox, chat>>
         /\ UNCHANGED configVars
         /\ Forwarded' = Forwarded

LEMMA ManagerSteps ==
  ASSUME ManagerIInv, [ManagerNext]_managerVars
  PROVE  \/ Quiet
         \/ \E id \in Ids : Forward(id) \/ Withhold(id)
         \/ Deliver \/ Restart
<1>1. CASE TickOnly
  BY <1>1 DEF TickOnly, Tick, Quiet, configVars, messageVars, Forwarded
<1>2. CASE UNCHANGED managerVars
  BY <1>2 DEF managerVars, parityVars, cooldownVars, Quiet, configVars,
              messageVars, Forwarded
<1> QED
  BY <1>1, <1>2 DEF ManagerNext, TickOnly, HandleAlert

(* The messages, the map and the clock hold integers. *)
LEMMA ManagerInts ==
  ASSUME ManagerTypeOK
  PROVE  /\ now \in Int /\ life \in Int
         /\ \A id \in DOMAIN lastSent : lastSent[id] \in Int
         /\ \A m \in Forwarded : m.at \in Int /\ m.life \in Int /\ m.id \in Ids
         /\ \A i \in 1..Len(inbox) : inbox[i] \in Forwarded
         /\ \A i \in 1..Len(chat) : chat[i] \in Forwarded
         /\ \A i \in 1..Len(missed) : missed[i] \in Forwarded
<1>1. \A m \in Messages : m.at \in Int /\ m.life \in Int /\ m.id \in Ids
  BY CooldownAssumption, ManagerAssumption DEF Messages, Time
<1>2. Forwarded \subseteq Messages
  BY DEF Forwarded, Contents, ManagerTypeOK
<1>3. /\ now \in Int /\ life \in Int
      /\ \A id \in DOMAIN lastSent : lastSent[id] \in Int
  BY CooldownAssumption, ManagerAssumption DEF ManagerTypeOK,
                                               CooldownTypeOK, Time
<1> QED
  BY <1>1, <1>2, <1>3 DEF Forwarded, Contents

(* The thread of a type depends on the configuration alone. *)
LEMMA SameThread ==
  ASSUME UNCHANGED configVars, NEW type
  PROVE  FindThreadId(type)' = FindThreadId(type)
  BY DEF configVars, FindThreadId

(* Every entry of the map is the time of a forwarded message. *)
LEMMA NextMapForwarded ==
  ManagerIInv /\ [ManagerNext]_managerVars => MapIsForwarded'
<1> SUFFICES ASSUME ManagerIInv, [ManagerNext]_managerVars PROVE MapIsForwarded'
  OBVIOUS
<1>0. MapIsForwarded /\ ManagerTypeOK
  BY DEF ManagerIInv
<1>1. ASSUME lastSent' = lastSent, life' = life, Forwarded \subseteq Forwarded'
      PROVE  MapIsForwarded'
  BY <1>0, <1>1 DEF MapIsForwarded
<1>2. ASSUME NEW id \in Ids, Forward(id) PROVE MapIsForwarded'
  <2>1. /\ Forwarded' = Forwarded \cup {Message(id)} /\ life' = life
        /\ Unlimited(id) => lastSent' = lastSent
        /\ ~Unlimited(id) =>
             /\ DOMAIN lastSent' = DOMAIN lastSent \cup {id}
             /\ lastSent'[id] = now
             /\ \A x \in DOMAIN lastSent : x # id => lastSent'[x] = lastSent[x]
    BY <1>0, <1>2, ForwardStep
  <2>2. Message(id).id = id /\ Message(id).at = now /\ Message(id).life = life
    BY <1>0, MessageType
  <2>3. CASE Unlimited(id)
    BY <1>1, <2>1, <2>3
  <2>4. CASE ~Unlimited(id)
    BY <1>0, <2>1, <2>2, <2>4 DEF MapIsForwarded
  <2> QED
    BY <2>3, <2>4
<1>3. ASSUME NEW id \in Ids, Withhold(id) PROVE MapIsForwarded'
  BY <1>1, <1>3 DEF Withhold, Suppress, messageVars, Forwarded
<1>4. CASE Deliver
  BY <1>0, <1>1, <1>4, DeliverStep DEF Deliver, parityVars, cooldownVars
<1>5. CASE Restart
  BY <1>5 DEF Restart, MapIsForwarded
<1> QED
  BY <1>1, <1>2, <1>3, <1>4, <1>5, ManagerSteps DEF Quiet

(* What this life forwarded is in the map, and went where the routes say. *)
LEMMA NextForwardedMapped ==
  ManagerIInv /\ [ManagerNext]_managerVars => ForwardedIsMapped'
<1> SUFFICES ASSUME ManagerIInv, [ManagerNext]_managerVars PROVE ForwardedIsMapped'
  OBVIOUS
<1>0. ForwardedIsMapped /\ ManagerTypeOK /\ MapIsLastSent
  BY DEF ManagerIInv, CooldownIInv
<1>1. ASSUME lastSent' = lastSent, life' = life, UNCHANGED configVars,
             Forwarded' = Forwarded
      PROVE  ForwardedIsMapped'
  BY <1>0, <1>1, SameThread DEF ForwardedIsMapped
<1>2. ASSUME NEW id \in Ids, Forward(id) PROVE ForwardedIsMapped'
  <2>1. /\ Forwarded' = Forwarded \cup {Message(id)} /\ life' = life
        /\ UNCHANGED configVars
        /\ Unlimited(id) => lastSent' = lastSent
        /\ ~Unlimited(id) =>
             /\ DOMAIN lastSent' = DOMAIN lastSent \cup {id}
             /\ lastSent'[id] = now
             /\ \A x \in DOMAIN lastSent : x # id => lastSent'[x] = lastSent[x]
    BY <1>0, <1>2, ForwardStep
  <2>2. /\ Message(id).id = id /\ Message(id).at = now /\ Message(id).life = life
        /\ Message(id).thread = FindThreadId(id[1])
    BY <1>0, MessageType
  <2>3. \A type : FindThreadId(type)' = FindThreadId(type)
    BY <2>1, SameThread
  <2>4. ASSUME NEW m \in Forwarded, m.life = life, ~Unlimited(m.id)
        PROVE  m.id \in DOMAIN lastSent' /\ m.at <= lastSent'[m.id]
    <3>1. /\ m.id \in DOMAIN lastSent /\ m.at <= lastSent[m.id]
          /\ m.at \in Int /\ lastSent[m.id] \in Int /\ now \in Int
      BY <1>0, <2>4, ManagerInts DEF ForwardedIsMapped
    <3>2. lastSent[m.id] <= now
      BY <1>0, <3>1 DEF MapIsLastSent
    <3> QED
      BY <2>1, <3>1, <3>2
  <2>5. ~Unlimited(id) => id \in DOMAIN lastSent' /\ now <= lastSent'[id]
    BY <1>0, <2>1, ManagerInts
  <2>6. ASSUME NEW m \in Forwarded'
        PROVE  /\ m.life <= life
               /\ m.thread = FindThreadId(m.id[1])
               /\ m.life = life /\ ~Unlimited(m.id)
                    => m.id \in DOMAIN lastSent' /\ m.at <= lastSent'[m.id]
    <3>1. CASE m \in Forwarded
      BY <1>0, <2>4, <3>1 DEF ForwardedIsMapped
    <3>2. CASE m = Message(id)
      BY <1>0, <2>2, <2>5, <3>2, ManagerInts
    <3> QED
      BY <2>1, <3>1, <3>2
  <2> QED
    BY <2>1, <2>3, <2>6 DEF ForwardedIsMapped
<1>3. ASSUME NEW id \in Ids, Withhold(id) PROVE ForwardedIsMapped'
  BY <1>1, <1>3 DEF Withhold, Suppress, messageVars, Forwarded
<1>4. CASE Deliver
  BY <1>0, <1>1, <1>4, DeliverStep DEF Deliver, parityVars, cooldownVars
<1>5. CASE Restart
  <2>1. Forwarded' = Forwarded /\ life' = life + 1 /\ UNCHANGED configVars
    BY <1>0, <1>5, RestartStep DEF Restart
  <2>2. \A type : FindThreadId(type)' = FindThreadId(type)
    BY <2>1, SameThread
  <2>3. \A m \in Forwarded : m.life <= life' /\ m.life # life'
    BY <1>0, <2>1, ManagerInts DEF ForwardedIsMapped
  <2> QED
    BY <1>0, <2>1, <2>2, <2>3 DEF ForwardedIsMapped
<1> QED
  BY <1>1, <1>2, <1>3, <1>4, <1>5, ManagerSteps DEF Quiet

(* A delivery adds at most its message to the chat, at the end. *)
LEMMA ChatGrows ==
  ASSUME ManagerTypeOK, Deliver
  PROVE  /\ \A i \in 1..Len(chat') :
              \/ chat'[i] = Head(inbox)
              \/ i \in 1..Len(chat) /\ chat'[i] = chat[i]
         /\ \A i, j \in 1..Len(chat') :
              i < j => i \in 1..Len(chat) /\ chat'[i] = chat[i]
<1>1. CASE chat' = chat
  <2>1. Len(chat) \in Nat
    BY DEF ManagerTypeOK
  <2> QED
    BY <1>1, <2>1
<1>2. CASE chat' = Append(chat, Head(inbox))
  <2>1. Head(inbox) \in Messages /\ chat \in Seq(Messages)
    BY DeliverStep, TailFacts DEF ManagerTypeOK
  <2>2. /\ Len(chat') = Len(chat) + 1 /\ Len(chat) \in Nat
        /\ \A i \in 1..Len(chat) : chat'[i] = chat[i]
        /\ chat'[Len(chat) + 1] = Head(inbox)
    BY <1>2, <2>1, AppendFacts
  <2>3. \A i \in 1..Len(chat') : i \in 1..Len(chat) \/ i = Len(chat) + 1
    BY <2>2
  <2>4. \A i, j \in 1..Len(chat') : i < j => i \in 1..Len(chat)
    BY <2>2
  <2> QED
    BY <2>2, <2>3, <2>4
<1> QED
  BY <1>1, <1>2, DeliverStep

(* A message forwarded now is a cooldown later than every other of its     *)
(* identity and life.                                                      *)
LEMMA NewIsApart ==
  ASSUME ManagerIInv, NEW id \in Ids, Unlimited(id) \/ Due(id), NEW m \in Forwarded
  PROVE  Apart(m, Message(id))
<1> SUFFICES ASSUME m.id = id, m.life = life, ~Unlimited(m.id)
             PROVE  now - m.at >= CooldownSecondsFor(m.id[1])
  BY MessageType DEF Apart, ManagerIInv
<1>1. ManagerTypeOK
  BY DEF ManagerIInv
<1>2. m.id \in DOMAIN lastSent /\ m.at <= lastSent[m.id]
  BY DEF ManagerIInv, ForwardedIsMapped
<1>3. now - lastSent[id] >= CooldownSecondsFor(id[1])
  BY <1>2 DEF Due
<1>4. now \in Int /\ m.at \in Int /\ lastSent[id] \in Int
      /\ CooldownSecondsFor(id[1]) \in Int
  BY <1>1, <1>2, ManagerInts, SecondsInt
<1> QED
  BY <1>2, <1>3, <1>4

(* Waiting messages stay apart, from each other and from those posted.     *)
LEMMA NextQueue == ManagerIInv /\ [ManagerNext]_managerVars => QueueSpaced'
<1> SUFFICES ASSUME ManagerIInv, [ManagerNext]_managerVars PROVE QueueSpaced'
  OBVIOUS
<1>0. QueueSpaced /\ ManagerTypeOK
  BY DEF ManagerIInv
<1>1. CASE inbox' = inbox /\ chat' = chat
  BY <1>0, <1>1 DEF QueueSpaced
<1>2. ASSUME NEW id \in Ids, Forward(id), inbox' = Append(inbox, Message(id))
      PROVE  QueueSpaced'
  <2>1. /\ Len(inbox') = Len(inbox) + 1 /\ Len(inbox) \in Nat
        /\ \A i \in 1..Len(inbox) : inbox'[i] = inbox[i]
        /\ inbox'[Len(inbox) + 1] = Message(id)
    <3>1. Message(id) \in Messages /\ inbox \in Seq(Messages)
      BY <1>0, MessageType DEF ManagerTypeOK
    <3> QED
      BY <1>2, <3>1, AppendFacts
  <2>2. chat' = chat
    BY <1>0, <1>2, ForwardStep
  <2>3. \A m \in Forwarded : Apart(m, Message(id))
    BY <1>0, <1>2, ForwardStep, NewIsApart
  <2>4. /\ \A i \in 1..Len(inbox) : Apart(inbox[i], Message(id))
        /\ \A i \in 1..Len(chat) : Apart(chat[i], Message(id))
    BY <1>0, <2>3, ManagerInts
  <2>5. \A j \in 1..Len(inbox') : j \in 1..Len(inbox) \/ j = Len(inbox) + 1
    BY <2>1
  <2>6. ASSUME NEW i \in 1..Len(inbox'), NEW j \in 1..Len(inbox'), i < j
        PROVE  Apart(inbox'[i], inbox'[j])
    <3>1. i \in 1..Len(inbox)
      BY <2>1, <2>6
    <3> QED
      BY <1>0, <2>1, <2>4, <2>5, <2>6, <3>1 DEF QueueSpaced
  <2>7. ASSUME NEW i \in 1..Len(chat), NEW j \in 1..Len(inbox')
        PROVE  Apart(chat[i], inbox'[j])
    BY <1>0, <2>1, <2>4, <2>5 DEF QueueSpaced
  <2> QED
    BY <2>2, <2>6, <2>7 DEF QueueSpaced, Apart, Unlimited
<1>3. CASE Deliver
  <2>1. /\ Len(inbox') = Len(inbox) - 1 /\ Len(inbox) \in Nat \ {0}
        /\ \A i \in 1..Len(inbox') : inbox'[i] = inbox[i + 1]
        /\ Head(inbox) = inbox[1]
    <3>1. inbox \in Seq(Messages) /\ inbox # <<>> /\ inbox' = Tail(inbox)
      BY <1>0, <1>3, DeliverStep DEF ManagerTypeOK
    <3> QED
      BY <3>1, TailFacts
  <2>2. \A j \in 1..Len(inbox') : j + 1 \in 1..Len(inbox) /\ 1 < j + 1
    BY <2>1
  <2>3. \A i, j \in 1..Len(inbox') : i < j => Apart(inbox'[i], inbox'[j])
    BY <1>0, <2>1, <2>2 DEF QueueSpaced
  <2>4. \A j \in 1..Len(inbox') : Apart(Head(inbox), inbox'[j])
    BY <1>0, <2>1, <2>2 DEF QueueSpaced
  <2>5. \A i \in 1..Len(chat), j \in 1..Len(inbox') : Apart(chat[i], inbox'[j])
    BY <1>0, <2>1, <2>2 DEF QueueSpaced
  <2>6. \A i \in 1..Len(chat') : chat'[i] = Head(inbox)
                                 \/ (i \in 1..Len(chat) /\ chat'[i] = chat[i])
    BY <1>0, <1>3, ChatGrows
  <2>7. \A i \in 1..Len(chat'), j \in 1..Len(inbox') : Apart(chat'[i], inbox'[j])
    BY <2>4, <2>5, <2>6
  <2> QED
    BY <2>3, <2>7 DEF QueueSpaced, Apart, Unlimited
<1>4. CASE Restart
  BY <1>4 DEF Restart, QueueSpaced
<1>5. ASSUME NEW id \in Ids, Forward(id) PROVE QueueSpaced'
  BY <1>0, <1>1, <1>2, <1>5, ForwardStep
<1>6. ASSUME NEW id \in Ids, Withhold(id) PROVE QueueSpaced'
  BY <1>1, <1>6 DEF Withhold, messageVars
<1> QED
  BY <1>1, <1>3, <1>4, <1>5, <1>6, ManagerSteps DEF Quiet

(* A posted message was the oldest that waited, so the chat stays spaced.  *)
LEMMA NextChat == ManagerIInv /\ [ManagerNext]_managerVars => ChatSpaced'
<1> SUFFICES ASSUME ManagerIInv, [ManagerNext]_managerVars PROVE ChatSpaced'
  OBVIOUS
<1>0. ChatSpaced /\ QueueSpaced /\ ManagerTypeOK
  BY DEF ManagerIInv
<1>1. CASE chat' = chat
  BY <1>0, <1>1 DEF ChatSpaced
<1>2. CASE Deliver
  <2> SUFFICES ASSUME NEW i \in 1..Len(chat'), NEW j \in 1..Len(chat'), i < j
               PROVE  Apart(chat'[i], chat'[j])
    BY DEF ChatSpaced, Apart
  <2>1. i \in 1..Len(chat) /\ chat'[i] = chat[i]
    BY <1>0, <1>2, ChatGrows
  <2>2. CASE j \in 1..Len(chat) /\ chat'[j] = chat[j]
    BY <1>0, <2>1, <2>2 DEF ChatSpaced, Apart
  <2>3. CASE chat'[j] = Head(inbox)
    <3>1. Head(inbox) = inbox[1] /\ 1 \in 1..Len(inbox)
      <4>1. inbox \in Seq(Messages) /\ inbox # <<>>
        BY <1>0, <1>2, DeliverStep DEF ManagerTypeOK
      <4> QED
        BY <4>1, TailFacts
    <3> QED
      BY <1>0, <2>1, <2>3, <3>1 DEF QueueSpaced
  <2> QED
    BY <1>0, <1>2, <2>2, <2>3, ChatGrows
<1>3. ASSUME NEW id \in Ids, Forward(id) PROVE ChatSpaced'
  BY <1>0, <1>1, <1>3, ForwardStep
<1>4. ASSUME NEW id \in Ids, Withhold(id) PROVE ChatSpaced'
  BY <1>1, <1>4 DEF Withhold, messageVars
<1>5. CASE Restart
  BY <1>1, <1>5 DEF Restart
<1> QED
  BY <1>1, <1>2, <1>3, <1>4, <1>5, ManagerSteps DEF Quiet

(* A withheld alert's reason. *)
Reason(r, m) ==
  m.id = r.id /\ m.life = life /\ r.at - m.at < CooldownSecondsFor(m.id[1])

(* Every alert withheld, before or now, has its reason. *)
LEMMA NextWithheld ==
  ManagerIInv /\ [ManagerNext]_managerVars => WithheldHasReason'
<1> SUFFICES ASSUME ManagerIInv, [ManagerNext]_managerVars PROVE WithheldHasReason'
  OBVIOUS
<1>0. WithheldHasReason /\ ManagerTypeOK /\ MapIsForwarded
  BY DEF ManagerIInv
<1>1. ASSUME suppressed' = suppressed, life' = life, Forwarded \subseteq Forwarded'
      PROVE  WithheldHasReason'
  <2>1. \A i \in 1..Len(suppressed) : \E m \in Forwarded : Reason(suppressed[i], m)
    BY <1>0 DEF WithheldHasReason, Reason
  <2>2. \A i \in 1..Len(suppressed') : \E m \in Forwarded' : Reason(suppressed[i], m)'
    BY <1>1, <2>1 DEF Reason
  <2> QED
    BY <2>2 DEF WithheldHasReason, Reason
<1>2. ASSUME NEW id \in Ids, Forward(id) PROVE WithheldHasReason'
  BY <1>0, <1>1, <1>2, ForwardStep
<1>3. ASSUME NEW id \in Ids, Withhold(id) PROVE WithheldHasReason'
  <2>1. /\ Suppress(id) /\ life' = life /\ Forwarded' = Forwarded
    BY <1>3 DEF Withhold, messageVars, Forwarded
  <2>2. /\ \A i \in 1..Len(suppressed') :
             \/ i \in 1..Len(suppressed) /\ suppressed'[i] = suppressed[i]
             \/ suppressed'[i] = Record(id)
        /\ Record(id).id = id /\ Record(id).at = now
    <3>1. suppressed \in Seq(Records) /\ Record(id) \in Records
          /\ Record(id).id = id /\ Record(id).at = now
      BY <1>0, RecordType DEF ManagerTypeOK, CooldownTypeOK
    <3>2. /\ Len(Append(suppressed, Record(id))) = Len(suppressed) + 1
          /\ Len(suppressed) \in Nat
          /\ \A i \in 1..Len(suppressed) :
               Append(suppressed, Record(id))[i] = suppressed[i]
          /\ Append(suppressed, Record(id))[Len(suppressed) + 1] = Record(id)
      BY <3>1, AppendFacts
    <3>3. suppressed' = Append(suppressed, Record(id))
      BY <2>1 DEF Suppress
    <3> QED
      BY <3>1, <3>2, <3>3
  <2>3. \E m \in Forwarded : Reason(Record(id), m)
    <3>1. id \in DOMAIN lastSent /\ ~(now - lastSent[id] >= CooldownSecondsFor(id[1]))
      BY <2>1 DEF Suppress, Due
    <3>2. PICK m \in Forwarded : m.id = id /\ m.life = life /\ m.at = lastSent[id]
      BY <1>0, <3>1 DEF MapIsForwarded
    <3>3. now \in Int /\ lastSent[id] \in Int /\ CooldownSecondsFor(id[1]) \in Int
      BY <1>0, <3>1, ManagerInts, SecondsInt
    <3> QED
      BY <2>2, <3>1, <3>2, <3>3 DEF Reason
  <2>4. \A i \in 1..Len(suppressed') : \E m \in Forwarded : Reason(suppressed'[i], m)
    BY <1>0, <2>2, <2>3 DEF WithheldHasReason, Reason
  <2> QED
    BY <2>1, <2>4 DEF WithheldHasReason, Reason
<1>4. CASE Deliver
  BY <1>0, <1>1, <1>4, DeliverStep DEF Deliver, parityVars, cooldownVars
<1>5. CASE Restart
  BY <1>5 DEF Restart, WithheldHasReason
<1> QED
  BY <1>1, <1>2, <1>3, <1>4, <1>5, ManagerSteps DEF Quiet

(* The inductive invariant of the manager holds in every reachable state. *)
THEOREM ManagerInvariant == ManagerSpec => []ManagerIInv
<1>1. ManagerIInv /\ [ManagerNext]_managerVars => ManagerIInv'
  BY NextManagerType, NextManagerCooldown, NextMapForwarded,
     NextForwardedMapped, NextQueue, NextChat, NextWithheld
     DEF ManagerIInv
<1> QED
  BY InitManager, <1>1, PTL DEF ManagerSpec

(* The types of the configuration, the messages and the cooldown. *)
THEOREM ManagerTypeCorrect == ManagerSpec => []ManagerTypeOK
<1>1. ManagerIInv => ManagerTypeOK
  BY DEF ManagerIInv
<1> QED
  BY ManagerInvariant, <1>1, PTL

(* The chat gets no two messages of one limited identity within its        *)
(* cooldown, but for a restart between them.                               *)
THEOREM ChatIsSpaced == ManagerSpec => []ChatSpaced
<1>1. ManagerIInv => ChatSpaced
  BY DEF ManagerIInv
<1> QED
  BY ManagerInvariant, <1>1, PTL

(* Every alert withheld has a forwarded message of this life as reason. *)
THEOREM WithheldReasons == ManagerSpec => []WithheldHasReason
<1>1. ManagerIInv => WithheldHasReason
  BY DEF ManagerIInv
<1> QED
  BY ManagerInvariant, <1>1, PTL

(* Every posted message is in the most specific topic of its type. *)
THEOREM Routing == ManagerSpec => []RoutedBySpecificity
<1>1. ManagerIInv => RoutedBySpecificity
  <2> SUFFICES ASSUME ManagerIInv, NEW i \in 1..Len(chat)
               PROVE  LET routes == Specificity(chat[i].id[1])
                          given  == {k \in 1..3 : routes[k] \in DOMAIN alertThreads}
                      IN  IF given = {} THEN chat[i].thread = defaultThread
                          ELSE \E k \in given :
                                 /\ \A other \in given : k <= other
                                 /\ chat[i].thread = alertThreads[routes[k]]
    BY DEF RoutedBySpecificity
  <2> DEFINE type == chat[i].id[1]
             has(key) == key \in DOMAIN alertThreads
             given == {k \in 1..3 : has(Specificity(type)[k])}
  <2>1. chat[i].thread = FindThreadId(type)
    BY ManagerInts DEF ManagerIInv, ForwardedIsMapped
  <2>2. /\ Specificity(type)[1] = type
        /\ Specificity(type)[2] = Category(type)
        /\ Specificity(type)[3] = "default"
    BY DEF Specificity
  <2> HIDE DEF type
  <2>3. /\ 1 \in given <=> has(type)
        /\ 2 \in given <=> has(Category(type))
        /\ 3 \in given <=> has("default")
        /\ given \subseteq {1, 2, 3}
    BY <2>2
  <2>4. CASE has(type)
    <3>1. 1 \in given /\ \A other \in given : 1 <= other
      BY <2>3, <2>4
    <3>2. chat[i].thread = alertThreads[Specificity(type)[1]]
      BY <2>1, <2>2, <2>4 DEF FindThreadId
    <3> QED
      BY <3>1, <3>2 DEF type
  <2>5. CASE ~has(type) /\ has(Category(type))
    <3>1. 2 \in given /\ \A other \in given : 2 <= other
      BY <2>3, <2>5
    <3>2. chat[i].thread = alertThreads[Specificity(type)[2]]
      BY <2>1, <2>2, <2>5 DEF FindThreadId
    <3> QED
      BY <3>1, <3>2 DEF type
  <2>6. CASE ~has(type) /\ ~has(Category(type)) /\ has("default")
    <3>1. 3 \in given /\ \A other \in given : 3 <= other
      BY <2>3, <2>6
    <3>2. chat[i].thread = alertThreads[Specificity(type)[3]]
      BY <2>1, <2>2, <2>6 DEF FindThreadId
    <3> QED
      BY <3>1, <3>2 DEF type
  <2>7. CASE ~has(type) /\ ~has(Category(type)) /\ ~has("default")
    <3>1. given = {}
      BY <2>3, <2>7
    <3>2. chat[i].thread = defaultThread
      BY <2>1, <2>7 DEF FindThreadId
    <3> QED
      BY <3>1, <3>2 DEF type
  <2> QED
    BY <2>4, <2>5, <2>6, <2>7
<1> QED
  BY ManagerInvariant, <1>1, PTL

(* With the same restarts, the Go agent's manager answers as the C++ one   *)
(* does, for every configuration in which no cooldown is switched off.     *)
THEOREM ManagersAgree == ASSUME AllLimited PROVE ManagerSpec => []SameAnswers
<1> DEFINE Inv == ManagerIInv /\ ParityIInv
<1>1. ManagerInit => Inv
  BY InitManager
     DEF ManagerInit, ParityInit, CooldownInit, ParityIInv, SameAnswers,
         SameRecord
<1>2. ManagerIInv /\ [ManagerNext]_managerVars => ManagerIInv'
  BY NextManagerType, NextManagerCooldown, NextMapForwarded,
     NextForwardedMapped, NextQueue, NextChat, NextWithheld
     DEF ManagerIInv
<1>3. Inv /\ [ManagerNext]_managerVars => ParityIInv'
  <2> SUFFICES ASSUME Inv, [ManagerNext]_managerVars PROVE ParityIInv'
    OBVIOUS
  <2>1. CASE TickOnly
    BY <2>1 DEF TickOnly, Tick, ParityIInv, SameAnswers, SameRecord
  <2>2. ASSUME NEW id \in Ids, HandleAlert(id) PROVE ParityIInv'
    <3>1. ShouldSend(id)
      BY <2>2 DEF HandleAlert, Forward, Withhold, ShouldSend
    <3>2. CooldownTypeOK
      BY DEF ManagerIInv, CooldownIInv
    <3> QED
      BY <2>2, <3>1, <3>2, SameDecision DEF HandleAlert
  <2>3. CASE Deliver
    BY <2>3 DEF Deliver, parityVars, cooldownVars, ParityIInv, SameAnswers,
           SameRecord
  <2>4. CASE Restart
    BY <2>4 DEF Restart, ParityIInv, SameAnswers, SameRecord
  <2>5. CASE UNCHANGED managerVars
    BY <2>5 DEF managerVars, parityVars, cooldownVars, ParityIInv, SameAnswers,
           SameRecord
  <2> QED
    BY <2>1, <2>2, <2>3, <2>4, <2>5 DEF ManagerNext, TickOnly
<1>4. Inv /\ [ManagerNext]_managerVars => Inv'
  BY <1>2, <1>3
<1>5. Inv => SameAnswers
  BY DEF ParityIInv
<1> QED
  BY <1>1, <1>4, <1>5, PTL DEF ManagerSpec

----------------------------------------------------------------------------
(* The service and website monitors *)

(* The next service, or site, is the one after those handled. *)
LEMMA NextTarget ==
  ASSUME ProbeIInv
  PROVE  /\ services # <<>> => /\ Asked + 1 \in DOMAIN Services
                               /\ Head(services) = Services[Asked + 1]
                               /\ Head(services) \in Targets \ Alerted
         /\ websites # <<>> => /\ Fetched + 1 \in DOMAIN Websites
                               /\ Head(websites) = Websites[Fetched + 1]
                               /\ Head(websites) \in Targets \ Alerted
<1>0. /\ Services \in Seq(Targets) /\ Websites \in Seq(Targets)
      /\ 1..Asked \subseteq DOMAIN Services
      /\ 1..Fetched \subseteq DOMAIN Websites
      /\ services \in Seq(Targets) /\ websites \in Seq(Targets)
      /\ \A i, j \in DOMAIN Services : Services[i] = Services[j] => i = j
      /\ \A i, j \in DOMAIN Websites : Websites[i] = Websites[j] => i = j
      /\ \A i \in DOMAIN Services, j \in DOMAIN Websites :
           Services[i] # Websites[j]
      /\ Asked \in Nat /\ Fetched \in Nat
  BY ProbeAssumption
     DEF IsInjective, ProbeIInv, ProbeTypeOK, Remainders, Asked, Fetched
<1>1. ASSUME services # <<>>
      PROVE  /\ Asked + 1 \in DOMAIN Services
             /\ Head(services) = Services[Asked + 1]
             /\ Head(services) \in Targets \ Alerted
  <2>1. Asked + 1 \in DOMAIN Services /\ Head(services) = Services[Asked + 1]
    BY <1>0, <1>1, TailFacts DEF ProbeIInv, Remainders, Asked
  <2>2. ASSUME Head(services) \in Handled PROVE FALSE
    <3>1. CASE \E i \in 1..Asked : Head(services) = Services[i]
      BY <1>0, <2>1, <3>1
    <3>2. CASE \E i \in 1..Fetched : Head(services) = Websites[i]
      BY <1>0, <2>1, <3>2
    <3> QED
      BY <2>2, <3>1, <3>2 DEF Handled
  <2> QED
    BY <1>0, <2>1, <2>2 DEF ProbeIInv, Settled
<1>2. ASSUME websites # <<>>
      PROVE  /\ Fetched + 1 \in DOMAIN Websites
             /\ Head(websites) = Websites[Fetched + 1]
             /\ Head(websites) \in Targets \ Alerted
  <2>1. Fetched + 1 \in DOMAIN Websites /\ Head(websites) = Websites[Fetched + 1]
    BY <1>0, <1>2, TailFacts DEF ProbeIInv, Remainders, Fetched
  <2>2. ASSUME Head(websites) \in Handled PROVE FALSE
    <3>1. CASE \E i \in 1..Asked : Head(websites) = Services[i]
      BY <1>0, <2>1, <3>1
    <3>2. CASE \E i \in 1..Fetched : Head(websites) = Websites[i]
      BY <1>0, <2>1, <3>2
    <3> QED
      BY <2>2, <3>1, <3>2 DEF Handled
  <2> QED
    BY <1>0, <2>1, <2>2 DEF ProbeIInv, Settled
<1> QED
  BY <1>1, <1>2

(* A report adds its target to those alerted, which stay distinct. *)
LEMMA ReportAdds ==
  ASSUME ProbeIInv, NEW t \in Targets \ Alerted,
         reported' = reported \/ (/\ reported' = Append(reported, t)
                                 /\ t \in wasDown' \cup cut'),
         wasDown \subseteq wasDown', cut \subseteq cut'
  PROVE  /\ reported' \in Seq(Targets)
         /\ Alerted' = Alerted \/ Alerted' = Alerted \cup {t}
         /\ reported' = Append(reported, t) => t \in Alerted'
         /\ AlarmsExplained'
<1> USE DEF ProbeIInv, ProbeTypeOK
<1>1. CASE reported' = reported
  <2>1. Alerted' = Alerted
    BY <1>1 DEF Alerted
  <2>2. reported # Append(reported, t)
    BY AppendFacts
  <2> QED
    BY <1>1, <2>1, <2>2 DEF AlarmsExplained
<1>2. CASE reported' = Append(reported, t) /\ t \in wasDown' \cup cut'
  <2>1. /\ reported' \in Seq(Targets)
        /\ Len(reported) \in Nat
        /\ Len(reported') = Len(reported) + 1
        /\ \A i \in 1..Len(reported) : reported'[i] = reported[i]
        /\ reported'[Len(reported) + 1] = t
    BY <1>2, AppendFacts
  <2>2. DOMAIN reported = 1..Len(reported) /\ DOMAIN reported' = 1..Len(reported')
    BY <2>1
  <2>3. Alerted' = Alerted \cup {t}
    <3>1. ASSUME NEW x \in Alerted' PROVE x \in Alerted \cup {t}
      <4>1. PICK i \in 1..Len(reported') : x = reported'[i]
        BY <2>2 DEF Alerted
      <4>2. i \in 1..Len(reported) \/ i = Len(reported) + 1
        BY <2>1
      <4> QED
        BY <2>1, <2>2, <4>1, <4>2 DEF Alerted
    <3>2. ASSUME NEW x \in Alerted \cup {t} PROVE x \in Alerted'
      <4>1. CASE x = t
        BY <2>1, <2>2, <4>1 DEF Alerted
      <4>2. CASE x \in Alerted
        <5>1. PICK i \in 1..Len(reported) : x = reported[i]
          BY <2>2, <4>2 DEF Alerted
        <5>2. i \in 1..Len(reported')
          BY <2>1
        <5> QED
          BY <2>1, <2>2, <5>1, <5>2 DEF Alerted
      <4> QED
        BY <3>2, <4>1, <4>2
    <3> QED
      BY <3>1, <3>2
  <2>4. ASSUME NEW i \in DOMAIN reported', NEW j \in DOMAIN reported', i # j
        PROVE  reported'[i] # reported'[j]
    <3>1. ASSUME NEW k \in 1..Len(reported) PROVE reported[k] # t
      BY <2>2 DEF Alerted
    <3> QED
      BY <2>1, <2>2, <2>4, <3>1 DEF AlarmsExplained
  <2> QED
    BY <1>2, <2>1, <2>3, <2>4 DEF AlarmsExplained
<1> QED
  BY <1>1, <1>2

(* A service is settled: it was up, or it is reported. *)
LEMMA ServiceSettled ==
  ASSUME ProbeIInv, services # <<>>, services' = Tail(services),
         UNCHANGED <<agent, up, wasUp, wasDown, websites>>,
         cut \subseteq cut', child' = "none", status' = status,
         \/ reported' = reported /\ Head(services) \in wasUp
         \/ /\ reported' = Append(reported, Head(services))
            /\ Head(services) \in wasDown \cup cut'
  PROVE  ProbeIInv'
<1>1. PICK t \in Targets \ Alerted, k \in Nat :
        /\ t = Head(services) /\ t = Services[k + 1] /\ k = Asked
        /\ k + 1 \in DOMAIN Services
  <2>1. Asked \in Nat
    BY ProbeAssumption DEF ProbeIInv, Remainders, Asked, ProbeTypeOK
  <2> QED
    BY <2>1, NextTarget
<1>2. /\ reported' \in Seq(Targets)
      /\ Alerted' = Alerted \/ Alerted' = Alerted \cup {t}
      /\ reported' = Append(reported, t) => t \in Alerted'
      /\ AlarmsExplained'
  BY <1>1, ReportAdds
<1>3. /\ services' \in Seq(Targets)
      /\ Len(services') = Len(services) - 1 /\ Len(services) \in Nat \ {0}
      /\ \A i \in 1..Len(services') : services'[i] = services[i + 1]
      /\ DOMAIN services' = 1..Len(services')
      /\ DOMAIN services = 1..Len(services)
  BY TailFacts DEF ProbeIInv, ProbeTypeOK
<1>4. Asked' = k + 1 /\ Fetched' = Fetched
  BY <1>1, <1>3, ProbeAssumption DEF Asked, Fetched
<1>5. ProbeTypeOK'
  BY <1>2, <1>3 DEF ProbeIInv, ProbeTypeOK
<1>6. Remainders'
  <2>1. ASSUME NEW i \in DOMAIN services'
        PROVE  services'[i] = Services[Asked' + i]
    <3>1. i + 1 \in DOMAIN services /\ i \in Nat
      BY <1>3
    <3>2. services[i + 1] = Services[k + (i + 1)]
      BY <1>1, <3>1 DEF ProbeIInv, Remainders
    <3>3. k + (i + 1) = (k + 1) + i
      BY <3>1
    <3> QED
      BY <1>3, <1>4, <3>2, <3>3
  <2> QED
    BY <1>4, <2>1 DEF ProbeIInv, Remainders
<1>7. Settled'
  <2>1. 1..Asked' = 1..Asked \cup {k + 1}
    BY <1>1, <1>4
  <2>2. Handled' = Handled \cup {t}
    BY <1>1, <1>4, <2>1 DEF Handled
  <2>3. t \in wasUp \cup Alerted'
    BY <1>1, <1>2
  <2> QED
    BY <1>1, <1>2, <1>4, <2>1, <2>2, <2>3 DEF ProbeIInv, Settled
<1>8. WorldKnown' /\ ChildKnows'
  BY DEF ProbeIInv, WorldKnown, ChildKnows
<1> QED
  BY <1>2, <1>5, <1>6, <1>7, <1>8 DEF ProbeIInv

(* A site is settled: it was up, it is reported, or it was skipped. *)
LEMMA SiteSettled ==
  ASSUME ProbeIInv, Fetching, websites' = Tail(websites),
         UNCHANGED <<agent, up, wasUp, wasDown, services, child, status>>,
         cut \subseteq cut',
         \/ /\ reported' = reported
            /\ \/ Head(websites) \in wasUp
               \/ agent = "cpp" /\ Head(websites) \in cut'
         \/ /\ reported' = Append(reported, Head(websites))
            /\ Head(websites) \in wasDown \cup cut'
  PROVE  ProbeIInv'
<1>1. PICK t \in Targets \ Alerted, k \in Nat :
        /\ t = Head(websites) /\ t = Websites[k + 1] /\ k = Fetched
        /\ k + 1 \in DOMAIN Websites
  <2>1. Fetched \in Nat
    BY ProbeAssumption DEF ProbeIInv, Remainders, Fetched, ProbeTypeOK
  <2> QED
    BY <2>1, NextTarget DEF Fetching
<1>2. /\ reported' \in Seq(Targets)
      /\ Alerted' = Alerted \/ Alerted' = Alerted \cup {t}
      /\ reported' = Append(reported, t) => t \in Alerted'
      /\ AlarmsExplained'
  BY <1>1, ReportAdds
<1>3. /\ websites' \in Seq(Targets)
      /\ Len(websites') = Len(websites) - 1 /\ Len(websites) \in Nat \ {0}
      /\ \A i \in 1..Len(websites') : websites'[i] = websites[i + 1]
      /\ DOMAIN websites' = 1..Len(websites')
      /\ DOMAIN websites = 1..Len(websites)
  BY TailFacts DEF ProbeIInv, ProbeTypeOK, Fetching
<1>4. Fetched' = k + 1 /\ Asked' = Asked
  BY <1>1, <1>3, ProbeAssumption DEF Asked, Fetched
<1>5. ProbeTypeOK'
  BY <1>2, <1>3 DEF ProbeIInv, ProbeTypeOK
<1>6. Remainders'
  <2>1. ASSUME NEW i \in DOMAIN websites'
        PROVE  websites'[i] = Websites[Fetched' + i]
    <3>1. i + 1 \in DOMAIN websites /\ i \in Nat
      BY <1>3
    <3>2. websites[i + 1] = Websites[k + (i + 1)]
      BY <1>1, <3>1 DEF ProbeIInv, Remainders
    <3>3. k + (i + 1) = (k + 1) + i
      BY <3>1
    <3> QED
      BY <1>3, <1>4, <3>2, <3>3
  <2> QED
    BY <1>4, <2>1 DEF ProbeIInv, Remainders
<1>7. Settled'
  <2>1. 1..Fetched' = 1..Fetched \cup {k + 1}
    BY <1>1, <1>4
  <2>2. Handled' = Handled \cup {t}
    BY <1>1, <1>4, <2>1 DEF Handled
  <2>3. t \in wasUp \cup Alerted' \/ (agent = "cpp" /\ t \in cut')
    BY <1>1, <1>2
  <2> QED
    BY <1>1, <1>2, <1>4, <2>1, <2>2, <2>3 DEF ProbeIInv, Settled
<1>8. WorldKnown' /\ ChildKnows'
  BY DEF ProbeIInv, WorldKnown, ChildKnows, Fetching
<1> QED
  BY <1>2, <1>5, <1>6, <1>7, <1>8 DEF ProbeIInv

(* Steps that settle no target: the world changes, the child goes on. *)
LEMMA NothingSettled ==
  ASSUME ProbeIInv, UNCHANGED <<agent, services, websites, reported>>,
         up' \subseteq Targets, up \cup wasUp \subseteq wasUp',
         wasDown \subseteq wasDown', cut \subseteq cut',
         WorldKnown', ChildKnows',
         child' \in {"none", "forked", "asking", "dead"},
         status' \in {"active", "inactive", "killed"}
  PROVE  ProbeIInv'
<1>1. Asked' = Asked /\ Fetched' = Fetched /\ Alerted' = Alerted
      /\ Handled' = Handled
  BY DEF Asked, Fetched, Alerted, Handled
<1>2. ProbeTypeOK' /\ Remainders' /\ AlarmsExplained'
  BY <1>1 DEF ProbeIInv, ProbeTypeOK, Remainders, AlarmsExplained
<1>3. Settled'
  BY <1>1 DEF ProbeIInv, Settled
<1> QED
  BY <1>2, <1>3 DEF ProbeIInv

(* Every step of a check of services and sites keeps the invariant. *)
LEMMA ProbeStep ==
  ASSUME ProbeIInv, ProbeNext
  PROVE  ProbeIInv'
<1> USE DEF worldVars, childVars
<1>1. CASE Change
  <2>1. PICK t \in Targets :
          IF t \in up
          THEN up' = up \ {t} /\ wasDown' = wasDown \cup {t} /\ UNCHANGED wasUp
          ELSE up' = up \cup {t} /\ wasUp' = wasUp \cup {t} /\ UNCHANGED wasDown
    BY <1>1 DEF Change
  <2>2. UNCHANGED <<agent, services, websites, childVars, reported, cut>>
    BY <1>1 DEF Change
  <2>3. WorldKnown' /\ up' \subseteq Targets
    BY <2>1 DEF ProbeIInv, WorldKnown, ProbeTypeOK
  <2>4. wasUp \subseteq wasUp' /\ wasDown \subseteq wasDown'
        /\ up \subseteq wasUp'
    BY <2>1 DEF ProbeIInv, WorldKnown
  <2>5. ChildKnows'
    BY <2>2, <2>4 DEF ProbeIInv, ChildKnows
  <2> QED
    BY <2>2, <2>3, <2>4, <2>5, NothingSettled DEF ProbeIInv, ProbeTypeOK
<1>2. CASE Cancel \/ Fork \/ Exec \/ Answer \/ Killed
  <2>1. /\ UNCHANGED <<agent, services, websites, reported, up, wasUp, wasDown>>
        /\ cut \subseteq cut'
        /\ child' \in {"none", "forked", "asking", "dead"}
        /\ status' \in {"active", "inactive", "killed"}
    BY <1>2 DEF Cancel, Fork, Exec, Answer, Killed, ProbeIInv, ProbeTypeOK
  <2>2. ChildKnows'
    <3>1. services # <<>> => Head(services) \in Targets
      BY NextTarget
    <3> QED
      BY <1>2, <2>1, <3>1
         DEF Cancel, Fork, Exec, Answer, Killed, Asking, ProbeIInv, ChildKnows,
             WorldKnown
  <2> QED
    BY <2>1, <2>2, NothingSettled DEF ProbeIInv, ProbeTypeOK, WorldKnown
<1>3. CASE ForkFails \/ Wait \/ WaitFails
  <2>1. /\ services # <<>> /\ services' = Tail(services)
        /\ UNCHANGED <<agent, up, wasUp, wasDown, websites, status>>
        /\ cut \subseteq cut' /\ child' = "none"
    BY <1>3 DEF ForkFails, Wait, WaitFails, NextService, Asking, ProbeIInv,
                ChildKnows
  <2>2. \/ reported' = reported /\ Head(services) \in wasUp
        \/ /\ reported' = Append(reported, Head(services))
           /\ Head(services) \in wasDown \cup cut'
    BY <1>3, <2>1 DEF ForkFails, Wait, WaitFails, NextService, ProbeIInv,
                      ChildKnows
  <2> QED
    BY <2>1, <2>2, ServiceSettled
<1>4. CASE SkipSite \/ Fetch
  <2>1. /\ Fetching /\ websites' = Tail(websites)
        /\ UNCHANGED <<agent, up, wasUp, wasDown, services, child, status>>
        /\ cut \subseteq cut'
    BY <1>4 DEF SkipSite, Fetch
  <2>2. Head(websites) \in Targets
    BY <2>1, NextTarget DEF Fetching
  <2>3. \/ /\ reported' = reported
           /\ \/ Head(websites) \in wasUp
              \/ agent = "cpp" /\ Head(websites) \in cut'
        \/ /\ reported' = Append(reported, Head(websites))
           /\ Head(websites) \in wasDown \cup cut'
    BY <1>4, <2>1, <2>2 DEF SkipSite, Fetch, ProbeIInv, WorldKnown
  <2> QED
    BY <2>1, <2>3, SiteSettled
<1> QED
  BY <1>1, <1>2, <1>3, <1>4 DEF ProbeNext, Service

----------------------------------------------------------------------------
(* The resource monitors *)

(* A quotient reaches a number when the dividend reaches its multiple. *)
LEMMA QuotientReaches ==
  ASSUME NEW a \in Nat, NEW b \in Nat \ {0}, NEW c \in Nat
  PROVE  a \div b >= c <=> a >= c * b
<1>1. PICK q \in Nat, r \in Nat :
        q = a \div b /\ a = b * q + r /\ r < b
  BY Division
<1>2. CASE q >= c
  <2>1. PICK d \in Nat : q = c + d
    BY <1>2
  <2>2. b * q = c * b + b * d /\ b * d \in Nat
    BY <2>1
  <2> QED
    BY <1>1, <1>2, <2>2
<1>3. CASE q < c
  <2>1. PICK d \in Nat : c = q + 1 + d
    BY <1>3
  <2>2. c * b = b * q + b + b * d /\ b * d \in Nat
    BY <2>1
  <2> QED
    BY <1>1, <1>3, <2>2
<1> QED
  BY <1>1, <1>2, <1>3

(* What is left after one more line is the end of the file again. *)
LEMMA RestShorter ==
  ASSUME NEW S, file \in Seq(S), rest \in Seq(S), rest # <<>>,
         Done >= 0, \A i \in DOMAIN rest : rest[i] = file[Done + i],
         rest' = Tail(rest), UNCHANGED file
  PROVE  /\ rest' \in Seq(S)
         /\ Done \in Nat /\ Done' = Done + 1
         /\ Done + 1 \in DOMAIN file /\ Head(rest) = file[Done + 1]
         /\ \A i \in DOMAIN rest' : rest'[i] = file'[Done' + i]
<1>1. /\ rest' \in Seq(S)
      /\ Len(rest') = Len(rest) - 1 /\ Len(rest) \in Nat \ {0}
      /\ Len(file) \in Nat
      /\ \A i \in 1..Len(rest') : rest'[i] = rest[i + 1]
      /\ DOMAIN rest' = 1..Len(rest') /\ DOMAIN rest = 1..Len(rest)
      /\ DOMAIN file = 1..Len(file)
      /\ Head(rest) = rest[1]
  BY TailFacts
<1>2. PICK k \in Nat : k = Done /\ k = Len(file) - Len(rest)
  <2>1. Done = Len(file) - Len(rest)
    BY DEF Done
  <2>2. Done \in Nat
    BY <1>1, <2>1
  <2> QED
    BY <2>1, <2>2
<1>3. Done' = k + 1
  BY <1>1, <1>2 DEF Done
<1>4. ASSUME NEW i \in DOMAIN rest'
      PROVE  rest'[i] = file'[Done' + i]
  <2>1. i + 1 \in DOMAIN rest /\ i \in Nat
    BY <1>1
  <2>2. rest[i + 1] = file[k + (i + 1)]
    BY <1>2, <2>1
  <2>3. k + (i + 1) = (k + 1) + i
    BY <2>1
  <2> QED
    BY <1>1, <1>3, <2>2, <2>3
<1> QED
  BY <1>1, <1>2, <1>3, <1>4

(* A line that is read is stored, unless it has no unit, and then nothing  *)
(* that counts follows.                                                    *)
LEMMA LineRead ==
  ASSUME ResourceIInv, ReadLine \/ ReadUnitless
  PROVE  ResourceIInv'
<1> USE DEF ResourceIInv, ResourceTypeOK
<1>0. /\ monitor = "ram" /\ opens /\ ~finished /\ rest # <<>> /\ raised = <<>>
      /\ UNCHANGED <<monitor, opens, percent, file, raised, finished>>
      /\ file \in Seq(Lines) /\ rest \in Seq(Lines)
  BY DEF ReadLine, ReadUnitless, MemInfoShape
<1>1. PICK k \in Nat, line \in Lines :
        /\ k = Done /\ k = Len(file) - Len(rest) /\ line = Head(rest)
        /\ k + 1 \in 1..Len(file) /\ line = file[k + 1]
        /\ line.unit <=> line.key # "HugePages"
  <2>1. /\ Len(rest) \in Nat \ {0} /\ Len(file) \in Nat
        /\ Head(rest) = rest[1] /\ Head(rest) \in Lines
        /\ DOMAIN rest = 1..Len(rest) /\ DOMAIN file = 1..Len(file)
    BY <1>0, TailFacts
  <2>2. Done = Len(file) - Len(rest)
    BY DEF Done
  <2>3. Done \in Nat /\ Done + 1 \in 1..Len(file) /\ rest[1] = file[Done + 1]
    BY <2>1, <2>2
  <2>4. Head(rest).unit <=> Head(rest).key # "HugePages"
    BY <1>0, <2>1, <2>3 DEF MemInfoShape
  <2> QED
    BY <2>1, <2>2, <2>3, <2>4
<1>2. /\ ReadLine => values' = [key \in DOMAIN values \cup {line.key} |->
                                IF key = line.key THEN line.value
                                ELSE values[key]]
      /\ \/ values' = values
         \/ values' = [key \in DOMAIN values \cup {line.key} |->
                        IF key = line.key THEN line.value ELSE values[key]]
  BY <1>1 DEF ReadLine, ReadUnitless, Store
<1>3. /\ rest' \in Seq(Lines)
      /\ \A i \in DOMAIN rest' : rest'[i] = file'[Done' + i]
      /\ Len(file) \in Nat /\ DOMAIN file = 1..Len(file)
      /\ ReadLine => Done' = k + 1
      /\ ReadUnitless => Done' = Len(file)
  <2>1. CASE ReadLine
    <3>1. rest' = Tail(rest)
      BY <2>1 DEF ReadLine
    <3>2. ~ReadUnitless
      BY <2>1 DEF ReadLine, ReadUnitless
    <3> QED
      BY <1>0, <1>1, <2>1, <3>1, <3>2, RestShorter
  <2>2. CASE ReadUnitless
    <3>1. rest' = <<>>
      BY <2>2 DEF ReadUnitless
    <3>2. ~ReadLine
      BY <2>2 DEF ReadLine, ReadUnitless
    <3> QED
      BY <1>0, <3>1, <3>2 DEF Done
  <2> QED
    BY <2>1, <2>2
<1>4. ASSUME NEW i \in DOMAIN file,
             file[i].key \in KeysThatCount \cap DOMAIN values'
      PROVE  values'[file[i].key] = file[i].value
  <2>1. CASE file[i].key = line.key
    <3>1. i = Place(line.key) /\ k + 1 = Place(line.key)
      BY <1>0, <1>1, <1>3, <1>4, <2>1 DEF MemInfoShape
    <3>2. file[i] = line
      BY <1>1, <3>1
    <3> QED
      BY <1>0, <1>2, <1>4, <2>1, <3>2 DEF MemInfoRead
  <2>2. CASE file[i].key # line.key
    BY <1>0, <1>2, <1>4, <2>2 DEF MemInfoRead
  <2> QED
    BY <2>1, <2>2
<1>5. ASSUME NEW i \in 1..Done', file[i].key \in KeysThatCount
      PROVE  file[i].key \in DOMAIN values'
  <2>1. CASE i \in 1..k
    BY <1>0, <1>1, <1>2, <1>5, <2>1 DEF MemInfoRead
  <2>2. CASE ReadLine /\ i \notin 1..k
    <3>0. Done' = k + 1
      BY <1>3, <2>2
    <3>1. i = k + 1
      <4>1. i \in 1..k + 1 /\ i \notin 1..k /\ k \in Nat
        BY <1>5, <2>2, <3>0
      <4> QED
        BY <4>1
    <3> QED
      BY <1>1, <1>2, <2>2, <3>1
  <2>3. CASE ReadUnitless /\ i \notin 1..k
    <3>1. line.key = "HugePages"
      BY <1>1, <2>3 DEF ReadUnitless
    <3>2. i \in DOMAIN file /\ i = Place(file[i].key) /\ i \in {1, 2, 3}
      BY <1>0, <1>3, <1>5, <2>3 DEF MemInfoShape, KeysThatCount, Place
    <3>3. k + 1 # 1 /\ k + 1 # 2 /\ k + 1 # i
      BY <1>0, <1>1, <1>5, <3>1 DEF MemInfoShape, KeysThatCount
    <3> QED
      BY <1>1, <2>3, <3>2, <3>3
  <2> QED
    BY <2>1, <2>2, <2>3
<1>6. DOMAIN values' \subseteq {file[i].key : i \in DOMAIN file}
  BY <1>0, <1>1, <1>2, <1>3 DEF MemInfoRead
<1>7. MemInfoShape' /\ MemInfoRead'
  BY <1>0, <1>3, <1>4, <1>5, <1>6 DEF MemInfoShape, MemInfoRead, WithinTotal
<1>8. Done' >= 0
  BY <1>1, <1>3
<1> QED
  BY <1>0, <1>3, <1>7, <1>8 DEF RamReached

(* When the file is read, the map has every line that counts. *)
LEMMA AmountsRead ==
  ASSUME ResourceIInv, monitor = "ram", rest = <<>>, NEW key \in KeysThatCount
  PROVE  /\ key \in DOMAIN values <=> Has(key)
         /\ Has(key) => /\ Value(key) = Amount(key)
                        /\ Amount(key) \in Nat
                        /\ Place(key) \in DOMAIN file
                        /\ file[Place(key)].key = key
                        /\ Amount(key) = file[Place(key)].value
<1> USE DEF ResourceIInv, ResourceTypeOK
<1>1. /\ file \in Seq(Lines) /\ Done = Len(file) /\ DOMAIN file = 1..Len(file)
  BY DEF MemInfoShape, Done
<1>2. key \in DOMAIN values => Has(key)
  BY DEF MemInfoRead, Has
<1>3. ASSUME Has(key)
      PROVE  /\ key \in DOMAIN values
             /\ Value(key) = Amount(key) /\ Amount(key) \in Nat
             /\ Place(key) \in DOMAIN file
             /\ file[Place(key)].key = key
             /\ Amount(key) = file[Place(key)].value
  <2>1. PICK i \in DOMAIN file :
          /\ i = CHOOSE j \in DOMAIN file : file[j].key = key
          /\ file[i].key = key
    BY <1>3 DEF Has
  <2>2. i = Place(key)
    BY <2>1 DEF MemInfoShape
  <2>3. Amount(key) = file[i].value
    BY <2>1 DEF Amount
  <2>4. key \in DOMAIN values
    BY <1>1, <2>1 DEF MemInfoRead
  <2>5. values[key] = file[i].value
    BY <2>1, <2>4 DEF MemInfoRead
  <2>6. file[i] \in Lines
    BY <1>1
  <2>7. file[i].value \in Nat
    BY <2>6 DEF Lines
  <2> QED
    BY <2>1, <2>2, <2>3, <2>4, <2>5, <2>7 DEF Value
<1> QED
  BY <1>2, <1>3

(* The judgement over the map is the judgement over the file. *)
LEMMA RamJudged ==
  ASSUME ResourceIInv, JudgeRam
  PROVE  ResourceIInv'
<1> USE DEF ResourceIInv, ResourceTypeOK
<1>0. /\ monitor = "ram" /\ opens /\ opens' /\ rest = <<>> /\ ~finished /\ finished'
      /\ raised = <<>>
      /\ UNCHANGED <<monitor, opens, percent, file, rest, values>>
  BY DEF JudgeRam
<1>1. /\ file \in Seq(Lines) /\ Len(file) >= 2 /\ Len(file) \in Nat
      /\ DOMAIN file = 1..Len(file)
      /\ file[1].key = "MemTotal" /\ file[2].key = "MemFree"
      /\ WithinTotal(file)
  BY <1>0 DEF MemInfoShape
<1>2. 1 \in DOMAIN file /\ 2 \in DOMAIN file
  BY <1>1
<1>3. Has("MemTotal") /\ Has("MemFree")
  BY <1>1, <1>2 DEF Has
<1>4. PICK t \in Nat : /\ t = Value("MemTotal") /\ t = Amount("MemTotal")
                       /\ t = file[1].value
  BY <1>0, <1>3, AmountsRead DEF KeysThatCount, Place
<1>5. PICK a \in Nat :
        /\ a = AvailableMemory
        /\ a = Amount(IF Has("MemAvailable") THEN "MemAvailable" ELSE "MemFree")
        /\ a <= t
  <2>1. CASE Has("MemAvailable")
    <3>1. /\ AvailableMemory = Amount("MemAvailable")
          /\ Amount("MemAvailable") \in Nat
          /\ 3 \in DOMAIN file /\ file[3].key = "MemAvailable"
          /\ Amount("MemAvailable") = file[3].value
      BY <1>0, <2>1, AmountsRead DEF KeysThatCount, Place, AvailableMemory
    <3>2. file[3].value <= file[1].value
      BY <1>1, <3>1 DEF WithinTotal
    <3> QED
      BY <1>4, <2>1, <3>1, <3>2
  <2>2. CASE ~Has("MemAvailable")
    <3>1. "MemAvailable" \notin DOMAIN values
      BY <1>0, <2>2, AmountsRead DEF KeysThatCount
    <3>2. /\ AvailableMemory = Amount("MemFree")
          /\ Amount("MemFree") \in Nat /\ Amount("MemFree") = file[2].value
      BY <1>0, <1>3, <3>1, AmountsRead
         DEF KeysThatCount, Place, AvailableMemory
    <3>3. file[2].value <= file[1].value
      BY <1>1, <1>2 DEF WithinTotal
    <3> QED
      BY <1>4, <2>2, <3>2, <3>3
  <2> QED
    BY <2>1, <2>2
<1>6. raised' # <<>> <=> t > 0 /\ 100 * (t - a) >= percent * t
  <2>1. raised' # <<>> <=> t > 0 /\ UsedPercent(t - a, t) >= percent
    <3>1. ASSUME t > 0 PROVE UsedPercent(t - a, t) \in Nat
      <4>1. PICK u \in Nat : u = (t - a) * 100
        BY <1>5
      <4>2. u \div t \in Nat
        BY <3>1, Division
      <4> QED
        BY <4>1, <4>2 DEF UsedPercent
    <3>2. raised' = IF \/ t <= 0 \/ a < 0 \/ UsedPercent(t - a, t) < percent
                    THEN <<>> ELSE <<"memory">>
      BY <1>0, <1>4, <1>5 DEF JudgeRam
    <3>3. percent \in Nat /\ <<>> # <<"memory">>
      OBVIOUS
    <3> QED
      BY <1>5, <3>1, <3>2, <3>3
  <2>2. ASSUME t > 0
        PROVE  UsedPercent(t - a, t) >= percent <=> 100 * (t - a) >= percent * t
    <3>1. PICK u \in Nat : u = (t - a) * 100
      BY <1>5
    <3>2. u \div t >= percent <=> u >= percent * t
      BY <2>2, QuotientReaches
    <3>3. 100 * (t - a) = u
      BY <1>5, <3>1
    <3> QED
      BY <3>1, <3>2, <3>3 DEF UsedPercent
  <2> QED
    BY <2>1, <2>2
<1>7. RamReached'
  <2>1. Amount("MemTotal")' = t
    BY <1>0, <1>4 DEF Amount
  <2>2. Amount(IF Has("MemAvailable") THEN "MemAvailable" ELSE "MemFree")' = a
    BY <1>0, <1>5 DEF Amount, Has
  <2> QED
    BY <1>0, <1>6, <2>1, <2>2 DEF RamReached
<1>8. MemInfoShape' /\ MemInfoRead' /\ Done' = Done
  BY <1>0 DEF MemInfoShape, MemInfoRead, WithinTotal, Done
<1> QED
  BY <1>0, <1>7, <1>8

(* A path is skipped, or judged by arithmetic that does not wrap. *)
LEMMA PathStep ==
  ASSUME ResourceIInv, SkipPath \/ JudgePath
  PROVE  ResourceIInv'
<1> USE DEF ResourceIInv, ResourceTypeOK
<1>0. /\ monitor = "disk" /\ rest # <<>> /\ rest' = Tail(rest)
      /\ UNCHANGED <<monitor, opens, percent, file, values, finished>>
      /\ file \in Seq(FileSystems) /\ rest \in Seq(FileSystems)
      /\ DOMAIN file = 1..Len(file) /\ Len(file) \in Nat
      /\ raised \in Seq(1..Len(file))
  BY DEF SkipPath, JudgePath, PathsJudged
<1>1. /\ rest' \in Seq(FileSystems)
      /\ Done \in Nat /\ Done' = Done + 1
      /\ Done + 1 \in DOMAIN file /\ Head(rest) = file[Done + 1]
      /\ \A i \in DOMAIN rest' : rest'[i] = file'[Done' + i]
  BY <1>0, RestShorter
<1>2. PICK k \in Nat, fs \in FileSystems :
        k = Done /\ fs = Head(rest) /\ fs = file[k + 1] /\ k + 1 \in 1..Len(file)
  BY <1>0, <1>1, TailFacts
<1>3. /\ fs.blocks \in Counts /\ fs.free \in Counts /\ Counts \subseteq Nat
      /\ fs.free <= fs.blocks /\ (~fs.readable => fs.blocks = 0)
  BY ResourceAssumption DEF FileSystems
<1>4. raised' = IF Full(fs) THEN Append(raised, k + 1) ELSE raised
  <2>1. Position = k + 1
    BY <1>1, <1>2 DEF Position, Done
  <2>2. CASE SkipPath
    BY <1>2, <1>3, <2>2 DEF SkipPath, Full
  <2>3. CASE JudgePath
    <3>1. /\ 2^Width \in Nat /\ fs.blocks \in Nat \ {0} /\ fs.free \in Nat
          /\ fs.blocks - fs.free \in Nat
      <4>1. 2^Width \in Nat
        BY ResourceAssumption
      <4>2. fs.blocks # 0
        BY <1>2, <2>3 DEF JudgePath
      <4>3. PICK b \in Nat, f \in Nat : b = fs.blocks /\ f = fs.free /\ f <= b
        BY <1>3
      <4>4. b # 0 /\ b - f \in Nat
        BY <4>2, <4>3
      <4> QED
        BY <4>1, <4>3, <4>4
    <3>2. 100 * fs.blocks < 2^Width
      BY <1>3, ResourceAssumption
    <3>3. PICK b \in Nat \ {0}, u \in Nat, w \in Nat \ {0} :
            /\ b = fs.blocks /\ u = fs.blocks - fs.free /\ w = 2^Width
            /\ 100 * b < w /\ u <= b
      BY <3>1, <3>2
    <3>4. u % w = u /\ (u * 100) % w = u * 100
      <4>1. PICK n \in Nat : n = u * 100 /\ n < w /\ u < w
        BY <3>3
      <4>2. u = w * 0 + u /\ n = w * 0 + n
        BY <3>3
      <4>3. u \in 0..w - 1 /\ n \in 0..w - 1
        BY <3>3, <4>1
      <4>4. u % w = u /\ n % w = n
        BY <4>2, <4>3, DivisionUnique
      <4> QED
        BY <4>1, <4>4
    <3>5. (u * 100) \div b >= percent <=> u * 100 >= percent * b
      <4>1. PICK n \in Nat : n = u * 100
        BY <3>3
      <4>2. percent \in Nat
        OBVIOUS
      <4>3. n \div b >= percent <=> n >= percent * b
        BY <4>1, <4>2, QuotientReaches
      <4> QED
        BY <4>1, <4>3
    <3>6. Full(fs) <=> (u * 100) \div b >= percent
      BY <3>3, <3>5 DEF Full
    <3>7. raised' = IF (u * 100) \div b >= percent
                    THEN Append(raised, k + 1) ELSE raised
      BY <1>2, <2>1, <2>3, <3>3, <3>4 DEF JudgePath, Wrapped
    <3> QED
      BY <3>6, <3>7
  <2> QED
    BY <2>2, <2>3
<1>5. /\ raised' \in Seq(1..Len(file))
      /\ \A i \in 1..Len(raised') : raised'[i] <= k + 1
      /\ \A i, j \in 1..Len(raised') : i < j => raised'[i] < raised'[j]
      /\ {raised'[i] : i \in 1..Len(raised')} = {i \in 1..k + 1 : Full(file[i])}
  <2>1. /\ \A i \in 1..Len(raised) : raised[i] <= k
        /\ \A i, j \in 1..Len(raised) : i < j => raised[i] < raised[j]
        /\ {raised[i] : i \in 1..Len(raised)} = {i \in 1..k : Full(file[i])}
    BY <1>0, <1>2 DEF PathsJudged
  <2>2. 1..k + 1 = 1..k \cup {k + 1}
    BY <1>2
  <2>3. CASE ~Full(fs)
    <3>1. {i \in 1..k + 1 : Full(file[i])} = {i \in 1..k : Full(file[i])}
      BY <1>2, <2>2, <2>3
    <3>2. \A i \in 1..Len(raised) : raised[i] \in 1..Len(file)
      BY <1>0
    <3> QED
      BY <1>0, <1>2, <1>4, <2>1, <2>3, <3>1, <3>2
  <2>4. CASE Full(fs)
    <3>1. raised' = Append(raised, k + 1)
      BY <1>4, <2>4
    <3>2. /\ raised' \in Seq(1..Len(file))
          /\ \A i \in 1..Len(raised') : raised'[i] <= k + 1
          /\ \A i, j \in 1..Len(raised') : i < j => raised'[i] < raised'[j]
      BY <1>0, <1>2, <2>1, <3>1, AppendLarger
    <3>3. /\ Len(raised) \in Nat
          /\ Len(raised') = Len(raised) + 1
          /\ \A i \in 1..Len(raised) : raised'[i] = raised[i]
          /\ raised'[Len(raised) + 1] = k + 1
      BY <1>0, <1>2, <3>1, AppendFacts
    <3>4. ASSUME NEW i \in 1..Len(raised')
          PROVE  raised'[i] \in {x \in 1..k + 1 : Full(file[x])}
      <4>1. CASE i \in 1..Len(raised)
        BY <2>1, <2>2, <3>3, <4>1
      <4>2. CASE i = Len(raised) + 1
        BY <1>2, <2>2, <2>4, <3>3, <4>2
      <4> QED
        BY <3>3, <4>1, <4>2
    <3>5. ASSUME NEW x \in 1..k + 1, Full(file[x])
          PROVE  x \in {raised'[i] : i \in 1..Len(raised')}
      <4>1. CASE x \in 1..k
        <5>1. PICK i \in 1..Len(raised) : x = raised[i]
          BY <2>1, <3>5, <4>1
        <5>2. i \in 1..Len(raised') /\ raised'[i] = x
          BY <3>3, <5>1
        <5> QED
          BY <5>2
      <4>2. CASE x = k + 1
        <5>1. Len(raised) + 1 \in 1..Len(raised')
          BY <3>3
        <5> QED
          BY <3>3, <4>2, <5>1
      <4> QED
        BY <2>2, <4>1, <4>2
    <3> QED
      BY <3>2, <3>4, <3>5
  <2> QED
    BY <2>3, <2>4
<1>6. PathsJudged'
  <2>1. \A i \in DOMAIN file : Full(file[i])' <=> Full(file[i])
    BY <1>0 DEF Full
  <2>2. {i \in 1..Done' : Full(file[i])'} = {i \in 1..k + 1 : Full(file[i])}
    BY <1>0, <1>1, <1>2, <2>1
  <2> QED
    BY <1>0, <1>1, <1>2, <1>5, <2>2 DEF PathsJudged
<1> QED
  BY <1>0, <1>1, <1>6

(* Nothing is judged twice: the last steps only end the check. *)
LEMMA ResourceStep ==
  ASSUME ResourceIInv, ResourceNext
  PROVE  ResourceIInv'
<1>1. CASE ReadLine \/ ReadUnitless
  BY <1>1, LineRead
<1>2. CASE JudgeRam
  BY <1>2, RamJudged
<1>3. CASE SkipPath \/ JudgePath
  BY <1>3, PathStep
<1>4. CASE EndPaths
  <2>1. /\ monitor' = "disk" /\ rest' = <<>> /\ finished' = TRUE
        /\ UNCHANGED <<monitor, opens, percent, file, rest, values, raised>>
    BY <1>4 DEF EndPaths
  <2>2. Done' = Done /\ PathsJudged' /\ DOMAIN rest' = {}
    BY <1>4, <2>1 DEF EndPaths, Done, PathsJudged, Full, ResourceIInv
  <2> QED
    BY <2>1, <2>2 DEF ResourceIInv, ResourceTypeOK
<1>5. CASE JudgeLoad
  <2>1. monitor' = "load" /\ finished' = TRUE /\ UNCHANGED <<opens, percent, file, rest>>
    BY <1>5 DEF JudgeLoad
  <2>2. Done' = Done
    BY <2>1 DEF Done
  <2> QED
    BY <2>1, <2>2 DEF ResourceIInv, ResourceTypeOK
<1>6. CASE OpenFails
  <2>1. /\ monitor' = "ram" /\ opens' = FALSE /\ finished' = TRUE
        /\ UNCHANGED <<monitor, opens, percent, file, rest, values, raised>>
        /\ raised = <<>> /\ opens = FALSE
    BY <1>6 DEF OpenFails, ResourceIInv, ResourceTypeOK
  <2>2. Done' = Done /\ MemInfoShape' /\ MemInfoRead' /\ RamReached'
    BY <1>6, <2>1 DEF OpenFails, ResourceIInv, Done, MemInfoShape, WithinTotal,
                      MemInfoRead, RamReached
  <2> QED
    BY <2>1, <2>2 DEF ResourceIInv, ResourceTypeOK
<1> QED
  BY <1>1, <1>2, <1>3, <1>4, <1>5, <1>6 DEF ResourceNext

(* A line that the kernel writes, with its unit unless it counts pages. *)
WellFormed(l) == l \in Lines /\ (l.unit <=> l.key # "HugePages")

LEMMA LineWritten ==
  ASSUME NEW key \in LineKeys, NEW n \in Nat
  PROVE  WellFormed(Line(key, n)) /\ Line(key, n).key = key
BY DEF WellFormed, Line, Lines

LEMMA SeqsAreSequences ==
  ASSUME NEW S, NEW n \in Nat
  PROVE  SeqsUpTo(S, n) \subseteq Seq(S)
<1> SUFFICES ASSUME NEW s \in SeqsUpTo(S, n) PROVE s \in Seq(S)
  OBVIOUS
<1>1. PICK k \in 0..n : s \in [1..k -> S]
  BY DEF SeqsUpTo
<1>2. k \in Nat
  OBVIOUS
<1> QED
  BY <1>1, <1>2

(* What the kernel writes has the lines that count at the beginning. *)
LEMMA MemInfoLines ==
  ASSUME NEW lines \in MemInfo
  PROVE  /\ lines \in Seq(Lines) /\ Len(lines) >= 2
         /\ lines[1].key = "MemTotal" /\ lines[2].key = "MemFree"
         /\ \A i \in DOMAIN lines : lines[i].unit <=> lines[i].key # "HugePages"
         /\ \A i \in DOMAIN lines :
              lines[i].key \in KeysThatCount => i = Place(lines[i].key)
<1>1. PICK total \in Counts, free \in Counts,
           available \in AvailableLines, others \in OtherLines :
             lines = <<Line("MemTotal", total), Line("MemFree", free)>>
                       \o available \o others
  BY DEF MemInfo
<1>2. Counts \subseteq Nat /\ MaxInput \in Nat
  BY ResourceAssumption
<1>3. PICK a : a = Line("MemTotal", total)
  OBVIOUS
<1>4. PICK b : b = Line("MemFree", free)
  OBVIOUS
<1>5. /\ WellFormed(a) /\ a.key = "MemTotal" /\ a \in Lines
      /\ WellFormed(b) /\ b.key = "MemFree" /\ b \in Lines
  BY <1>2, <1>3, <1>4, LineWritten DEF LineKeys, WellFormed
<1>6. /\ available \in Seq(Lines) /\ Len(available) \in {0, 1}
      /\ \A i \in 1..Len(available) :
           WellFormed(available[i]) /\ available[i].key = "MemAvailable"
  <2>1. CASE available = <<>>
    BY <2>1
  <2>2. CASE available # <<>>
    <3>1. PICK n \in Counts : available = <<Line("MemAvailable", n)>>
      BY <2>2 DEF AvailableLines
    <3>2. PICK c : c = Line("MemAvailable", n)
      OBVIOUS
    <3>3. WellFormed(c) /\ c.key = "MemAvailable" /\ c \in Lines
      BY <1>2, <3>2, LineWritten DEF LineKeys, WellFormed
    <3> QED
      BY <3>1, <3>2, <3>3
  <2> QED
    BY <2>1, <2>2
<1>7. /\ others \in Seq(Lines)
      /\ \A i \in 1..Len(others) :
           WellFormed(others[i]) /\ others[i].key \in {"Buffers", "HugePages"}
  <2>1. PICK c : c = Line("Buffers", 0)
    OBVIOUS
  <2>2. PICK d : d = Line("HugePages", 0)
    OBVIOUS
  <2>3. /\ WellFormed(c) /\ c.key = "Buffers" /\ c \in Lines
        /\ WellFormed(d) /\ d.key = "HugePages" /\ d \in Lines
    BY <2>1, <2>2, LineWritten DEF LineKeys, WellFormed
  <2>4. others \in Seq({c, d})
    BY <1>2, <2>1, <2>2, SeqsAreSequences DEF OtherLines
  <2>5. \A i \in 1..Len(others) : others[i] \in {c, d}
    BY <2>4
  <2>6. others \in Seq(Lines)
    BY <2>3, <2>4, <2>5
  <2> QED
    BY <2>3, <2>5, <2>6
<1>8. /\ <<a, b>> \in Seq(Lines) /\ Len(<<a, b>>) = 2
      /\ <<a, b>>[1] = a /\ <<a, b>>[2] = b
  BY <1>5
<1>9. PICK first \in Seq(Lines), m \in Nat :
        /\ first = <<a, b>> \o available
        /\ m = Len(available) /\ m \in {0, 1} /\ Len(first) = 2 + m
        /\ \A i \in 1..2 : first[i] = <<a, b>>[i]
        /\ \A i \in 1..m : first[2 + i] = available[i]
  <2>1. PICK s : s = <<a, b>>
    OBVIOUS
  <2>2. s \in Seq(Lines) /\ Len(s) = 2
    BY <1>8, <2>1
  <2>3. /\ s \o available \in Seq(Lines)
        /\ Len(s \o available) = 2 + Len(available)
        /\ \A i \in 1..2 : (s \o available)[i] = s[i]
        /\ \A i \in 1..Len(available) : (s \o available)[2 + i] = available[i]
    BY <1>6, <2>2, ConcatFacts
  <2>4. PICK m \in Nat : m = Len(available) /\ m \in {0, 1}
    BY <1>6
  <2> QED
    BY <2>1, <2>3, <2>4
<1>10. PICK n \in Nat : n = Len(others)
  BY <1>7
<1>11. /\ lines \in Seq(Lines) /\ Len(lines) = 2 + m + n
       /\ \A i \in 1..2 + m : lines[i] = first[i]
       /\ \A i \in 1..n : lines[2 + m + i] = others[i]
  <2>1. lines = first \o others
    BY <1>1, <1>3, <1>4, <1>9
  <2> QED
    BY <1>7, <1>9, <1>10, <2>1, ConcatFacts
<1>12. first[1] = a /\ first[2] = b /\ (m = 1 => first[3] = available[1])
  <2>1. 1 \in 1..2 /\ 2 \in 1..2
    OBVIOUS
  <2>2. first[1] = a /\ first[2] = b
    BY <1>8, <1>9, <2>1
  <2>3. ASSUME m = 1 PROVE first[3] = available[1]
    <3>1. 1 \in 1..m /\ 2 + 1 = 3
      BY <2>3
    <3> QED
      BY <1>9, <3>1
  <2> QED
    BY <2>2, <2>3
<1>13. lines[1] = a /\ lines[2] = b
  <2>1. 1 \in 1..2 + m /\ 2 \in 1..2 + m
    OBVIOUS
  <2> QED
    BY <1>11, <1>12, <2>1
<1>14. ASSUME NEW i \in 1..Len(lines)
       PROVE  /\ WellFormed(lines[i])
              /\ lines[i].key \in KeysThatCount => i = Place(lines[i].key)
  <2>1. CASE i = 1
    BY <1>5, <1>13, <2>1 DEF Place
  <2>2. CASE i = 2
    BY <1>5, <1>13, <2>2 DEF Place
  <2>3. CASE i = 3 /\ m = 1
    <3>1. i \in 1..2 + m /\ 1 \in 1..Len(available)
      BY <1>9, <2>3
    <3>2. lines[i] = available[1]
      BY <1>11, <1>12, <2>3, <3>1
    <3>3. WellFormed(available[1]) /\ available[1].key = "MemAvailable"
      BY <1>6, <3>1
    <3> QED
      BY <2>3, <3>2, <3>3 DEF Place
  <2>4. CASE i > 2 + m
    <3>1. i - (2 + m) \in 1..n /\ 2 + m + (i - (2 + m)) = i
      BY <1>11, <2>4
    <3>2. PICK j \in 1..n : i = 2 + m + j
      BY <3>1
    <3>3. lines[i] = others[j] /\ WellFormed(others[j])
          /\ others[j].key \in {"Buffers", "HugePages"}
      BY <1>7, <1>10, <1>11, <3>2
    <3> QED
      BY <3>3 DEF KeysThatCount
  <2>5. i = 1 \/ i = 2 \/ (i = 3 /\ m = 1) \/ i > 2 + m
    <3>1. i \in Nat /\ i >= 1 /\ (m = 0 \/ m = 1)
      BY <1>9, <1>11
    <3> QED
      BY <3>1
  <2> QED
    BY <2>1, <2>2, <2>3, <2>4, <2>5
<1>15. DOMAIN lines = 1..Len(lines) /\ Len(lines) >= 2
  BY <1>11
<1> QED
  BY <1>5, <1>11, <1>13, <1>14, <1>15 DEF WellFormed

LEMMA ResourceStarts ==
  ASSUME ResourceInit
  PROVE  ResourceIInv
<1>1. /\ percent \in 1..100 /\ MaxInput \in Nat /\ opens \in BOOLEAN
      /\ rest = file /\ raised = <<>> /\ DOMAIN values = {}
      /\ monitor \in {"ram", "disk", "load", "none"}
  BY ResourceAssumption DEF ResourceInit
<1>0. ~finished /\ finished \in BOOLEAN
  BY DEF ResourceInit
<1>2. ASSUME NEW S, file \in Seq(S)
      PROVE  /\ Done = 0 /\ 1..Done = {} /\ DOMAIN file = 1..Len(file)
             /\ ResourceTypeOK
  <2>1. Len(file) \in Nat /\ DOMAIN file = 1..Len(file)
    BY <1>2
  <2>2. Done = 0
    BY <1>1, <2>1 DEF Done
  <2>3. Done >= 0 /\ \A i \in DOMAIN rest : rest[i] = file[Done + i]
    BY <1>1, <2>1, <2>2
  <2>4. ResourceTypeOK
    BY <1>1, <1>0, <2>3, Zenon DEF ResourceTypeOK
  <2> QED
    BY <2>1, <2>2, <2>4
<1>3. CASE monitor = "ram"
  <2>1. file \in MemInfo /\ WithinTotal(file)
    BY <1>3 DEF ResourceInit
  <2>2. MemInfoShape
    BY <1>1, <2>1, MemInfoLines DEF MemInfoShape
  <2>3. file \in Seq(Lines)
    BY <2>2 DEF MemInfoShape
  <2>4. MemInfoRead
    BY <1>1, <1>2, <2>3 DEF MemInfoRead
  <2>5. monitor # "disk"
    BY <1>3
  <2> QED
    BY <1>1, <1>2, <1>0, <2>2, <2>3, <2>4, <2>5, Zenon
       DEF ResourceIInv, RamReached
<1>4. CASE monitor = "disk"
  <2>1. file \in Seq(FileSystems)
    BY <1>1, <1>4, SeqsAreSequences DEF ResourceInit
  <2>2. Done = 0 /\ 1..Done = {}
    BY <1>2, <2>1
  <2>3. raised \in Seq(1..Len(file)) /\ Len(raised) = 0 /\ 1..Len(raised) = {}
    BY <1>1
  <2>4. /\ {raised[i] : i \in 1..Len(raised)} = {}
        /\ {i \in 1..Done : Full(file[i])} = {}
    BY <2>2, <2>3
  <2>5. PathsJudged
    BY <1>1, <2>1, <2>3, <2>4 DEF PathsJudged
  <2> QED
    BY <1>2, <1>4, <2>1, <2>5 DEF ResourceIInv
<1>5. CASE monitor = "load"
  <2>1. file \in Seq(Counts)
    BY <1>5, SeqsAreSequences DEF ResourceInit
  <2> QED
    BY <1>2, <1>5, <2>1 DEF ResourceIInv
<1> QED
  BY <1>3, <1>4, <1>5 DEF ResourceInit

LEMMA ProbeStarts ==
  ASSUME ProbeInit
  PROVE  ProbeIInv
<1>1. /\ Services \in Seq(Targets) /\ Websites \in Seq(Targets)
      /\ services = Services /\ websites = Websites
      /\ reported = <<>> /\ wasUp = up /\ wasDown = Targets \ up /\ cut = {}
      /\ agent \in {"cpp", "go"} /\ up \subseteq Targets
      /\ child = "none" /\ status = "inactive"
  BY ProbeAssumption DEF ProbeInit
<1>2. Asked = 0 /\ Fetched = 0
  BY <1>1 DEF Asked, Fetched
<1>3. Remainders
  BY <1>1, <1>2 DEF Remainders
<1>4. DOMAIN reported = {} /\ 1..0 = {}
  BY <1>1
<1>5. Alerted = {}
  BY <1>4 DEF Alerted
<1>6. Settled
  BY <1>2, <1>4, <1>5 DEF Settled
<1>7. ProbeTypeOK
  BY <1>1 DEF ProbeTypeOK
<1>8. AlarmsExplained
  BY <1>4, <1>5 DEF AlarmsExplained
<1>9. WorldKnown /\ ChildKnows
  BY <1>1 DEF WorldKnown, ChildKnows
<1> QED
  BY <1>3, <1>6, <1>7, <1>8, <1>9 DEF ProbeIInv

LEMMA HealthStarts ==
  ASSUME HealthInit
  PROVE  HealthIInv
<1>1. CASE ResourceInit /\ NothingToAsk
  <2> USE <1>1 DEF NothingToAsk
  <2>1. Asked \in Nat /\ Fetched \in Nat
    BY ProbeAssumption DEF Asked, Fetched
  <2>2. 1..Asked = DOMAIN Services /\ 1..Fetched = DOMAIN Websites
    BY ProbeAssumption DEF Asked, Fetched
  <2>3. DOMAIN reported = {}
    OBVIOUS
  <2>4. Alerted = {}
    BY <2>3 DEF Alerted
  <2>5. Settled
    BY <2>2, <2>4 DEF Settled, Targets
  <2>6. Remainders
    BY <2>1 DEF Remainders
  <2>7. AlarmsExplained
    BY <2>3, <2>4 DEF AlarmsExplained
  <2>8. ProbeIInv
    BY <2>5, <2>6, <2>7 DEF ProbeIInv, ProbeTypeOK, WorldKnown, ChildKnows
  <2> QED
    BY <2>8, ResourceStarts DEF HealthIInv
<1>2. CASE NothingToRead /\ ProbeInit
  <2>1. ResourceIInv
    BY <1>2 DEF NothingToRead, ResourceIInv, ResourceTypeOK, Done
  <2> QED
    BY <1>2, <2>1, ProbeStarts DEF HealthIInv
<1> QED
  BY <1>1, <1>2 DEF HealthInit

LEMMA ResourceStays ==
  ASSUME ResourceIInv, UNCHANGED resourceVars
  PROVE  ResourceIInv'
BY DEF resourceVars, ResourceIInv, ResourceTypeOK, Done, MemInfoShape,
       WithinTotal, MemInfoRead, RamReached, Amount, Has, PathsJudged, Full

LEMMA ProbeStays ==
  ASSUME ProbeIInv, UNCHANGED probeVars
  PROVE  ProbeIInv'
<1>1. Asked' = Asked /\ Fetched' = Fetched /\ Alerted' = Alerted
  BY DEF probeVars, Asked, Fetched, Alerted
<1>2. Handled' = Handled
  BY <1>1 DEF Handled
<1> QED
  BY <1>1, <1>2 DEF probeVars, worldVars, childVars, ProbeIInv, ProbeTypeOK,
     Remainders, Settled, WorldKnown, ChildKnows, AlarmsExplained

(* Every check keeps what it has read, judged, asked and reported. *)
THEOREM HealthInvariant == HealthSpec => []HealthIInv
<1>1. HealthInit => HealthIInv
  BY HealthStarts
<1>2. HealthIInv /\ [HealthNext]_healthVars => HealthIInv'
  <2> SUFFICES ASSUME HealthIInv, [HealthNext]_healthVars PROVE HealthIInv'
    OBVIOUS
  <2> USE DEF HealthIInv
  <2>1. CASE ResourceNext /\ UNCHANGED probeVars
    BY <2>1, ResourceStep, ProbeStays
  <2>2. CASE ProbeNext /\ UNCHANGED resourceVars
    BY <2>2, ProbeStep, ResourceStays
  <2>3. CASE UNCHANGED healthVars
    BY <2>3, ProbeStays, ResourceStays DEF healthVars
  <2> QED
    BY <2>1, <2>2, <2>3 DEF HealthNext, Idle
<1> QED
  BY <1>1, <1>2, PTL DEF HealthSpec

(* Memory is reported exactly when its use reaches the configured percent  *)
(* and /proc/meminfo could be opened.                                      *)
THEOREM MemoryReported == HealthSpec => []RamReached
<1>1. HealthIInv => RamReached
  BY DEF HealthIInv, ResourceIInv, RamReached
<1> QED
  BY <1>1, HealthInvariant, PTL

(* Exactly the paths used to the configured percent are reported, in order. *)
THEOREM DisksReported == HealthSpec => []DiskReached
<1>1. HealthIInv => DiskReached
  <2> SUFFICES ASSUME HealthIInv, monitor = "disk", finished
               PROVE  /\ \A i, j \in DOMAIN raised : i < j => raised[i] < raised[j]
                      /\ {raised[i] : i \in DOMAIN raised}
                           = {i \in DOMAIN file : Full(file[i])}
    BY DEF DiskReached
  <2>1. rest = <<>> /\ PathsJudged
    <3>1. ResourceTypeOK /\ PathsJudged
      BY DEF HealthIInv, ResourceIInv
    <3> QED
      BY <3>1 DEF ResourceTypeOK
  <2>2. /\ DOMAIN raised = 1..Len(raised)
        /\ DOMAIN file = 1..Len(file) /\ Done = Len(file)
    BY <2>1 DEF PathsJudged, Done
  <2> QED
    BY <2>1, <2>2 DEF PathsJudged
<1> QED
  BY <1>1, HealthInvariant, PTL

(* A target that is down during the whole check is reported, unless it is  *)
(* a site that the C++ agent could not ask for.                            *)
THEOREM OutagesReported == HealthSpec => []NoOutageMissed
<1>1. HealthIInv => NoOutageMissed
  <2> SUFFICES ASSUME HealthIInv, Probed, NEW t \in Targets \ wasUp
               PROVE  \/ t \in Alerted
                      \/ /\ agent = "cpp"
                         /\ t \in cut \cap {Websites[i] : i \in DOMAIN Websites}
    BY DEF NoOutageMissed
  <2>1. Settled
    BY DEF HealthIInv, ProbeIInv
  <2>2. 1..Asked = DOMAIN Services /\ 1..Fetched = DOMAIN Websites
    BY ProbeAssumption DEF Asked, Fetched, Probed
  <2>3. CASE \E i \in DOMAIN Services : t = Services[i]
    BY <2>1, <2>2, <2>3 DEF Settled
  <2>4. CASE \E i \in DOMAIN Websites : t = Websites[i]
    BY <2>1, <2>2, <2>4 DEF Settled
  <2> QED
    BY <2>3, <2>4 DEF Targets
<1> QED
  BY <1>1, HealthInvariant, PTL

(* A target that is up during the whole check is reported only if it could *)
(* not be asked, and no target twice.                                      *)
THEOREM ReportsExplained == HealthSpec => []AlarmsExplained
<1>1. HealthIInv => AlarmsExplained
  BY DEF HealthIInv, ProbeIInv
<1> QED
  BY <1>1, HealthInvariant, PTL
============================================================================

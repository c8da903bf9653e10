------------------------- MODULE ArtifactStoreProofs -------------------------
(***************************************************************************)
(* A version names one save as long as it is stored, a reader finds what   *)
(* was saved last, and an event records versions that load what its calls  *)
(* saved, whatever the number of runs, files, saves and deletes.           *)
(***************************************************************************)
EXTENDS ArtifactStore, SequenceTheorems, WellFoundedInduction, TLAPS

\* Every entry is a save that no Delete has meant, and every such save has an entry.
EntriesAreSaves ==
    \A id \in Identity : \A i \in DOMAIN store[id] :
        /\ store[id][i].save \in DOMAIN saves
        /\ saves[store[id][i].save].id = id
        /\ saves[store[id][i].save].version = store[id][i].version
        /\ saves[store[id][i].save].stored

SavesHaveEntries ==
    \A n \in DOMAIN saves : saves[n].stored =>
        \E i \in DOMAIN store[saves[n].id] :
            store[saves[n].id][i] = [version |-> saves[n].version, save |-> n]

Named == VersionsIncrease /\ EntriesAreSaves /\ SavesHaveEntries

ArtifactInv == ArtifactTypeOK /\ VersionsIncrease /\ EntriesAreSaves /\ SavesHaveEntries

-----------------------------------------------------------------------------
(***************************************************************************)
(* The versions of one file                                                *)
(***************************************************************************)

Increasing(versions) ==
    \A i, j \in DOMAIN versions : i < j => versions[i].version < versions[j].version

\* The next version is above all that are stored.
LEMMA NextIsNew ==
    ASSUME NEW versions \in Seq(Entry), Increasing(versions)
    PROVE  /\ NextVersion(versions) \in Nat \ {0}
           /\ \A i \in DOMAIN versions : versions[i].version < NextVersion(versions)
<1>0. \A i \in DOMAIN versions : versions[i] \in Entry
    OBVIOUS
<1>1. \A i \in DOMAIN versions : versions[i].version \in Nat \ {0}
    <2> SUFFICES ASSUME NEW e \in Entry PROVE e.version \in Nat \ {0}
        BY <1>0
    <2> QED
        BY DEF Entry
<1>2. CASE versions = <<>>
    BY <1>2 DEF NextVersion
<1>3. CASE versions # <<>>
    <2>1. Len(versions) \in DOMAIN versions /\ \A i \in DOMAIN versions : i <= Len(versions)
        BY <1>3
    <2>2. NextVersion(versions) = versions[Len(versions)].version + 1
        BY <1>3 DEF NextVersion, Last
    <2>3. versions[Len(versions)].version \in Nat
        BY <1>1, <2>1
    <2>4. ASSUME NEW i \in DOMAIN versions
          PROVE  versions[i].version <= versions[Len(versions)].version
        <3>1. CASE i = Len(versions)
            BY <2>3, <3>1
        <3>2. CASE i < Len(versions)
            BY <1>1, <2>1, <2>3, <2>4, <3>2 DEF Increasing
        <3> QED
            BY <2>1, <2>4, <3>1, <3>2
    <2> QED
        BY <1>1, <2>2, <2>3, <2>4
<1> QED
    BY <1>2, <1>3

\* What Delete of a version leaves: all other entries, in their order.
LEMMA WithoutKeeps ==
    ASSUME NEW versions \in Seq(Entry), Increasing(versions), NEW v
    PROVE  /\ Without(versions, v) \in Seq(Entry)
           /\ Increasing(Without(versions, v))
           /\ \A i \in DOMAIN Without(versions, v) :
                 \E j \in DOMAIN versions : /\ Without(versions, v)[i] = versions[j]
                                            /\ versions[j].version # v
           /\ \A j \in DOMAIN versions : versions[j].version # v =>
                 \E i \in DOMAIN Without(versions, v) : Without(versions, v)[i] = versions[j]
<1>1. CASE ~\E j \in DOMAIN versions : versions[j].version = v
    <2>1. Without(versions, v) = versions
        BY <1>1, Zenon DEF Without
    <2> QED
        BY <1>1, <2>1
<1>2. CASE \E j \in DOMAIN versions : versions[j].version = v
    <2> DEFINE at == CHOOSE j \in DOMAIN versions : versions[j].version = v
               left == SubSeq(versions, 1, at - 1) \o SubSeq(versions, at + 1, Len(versions))
    <2>1. at \in DOMAIN versions /\ versions[at].version = v
        BY <1>2, Zenon
    <2>2. Without(versions, v) = left
        BY <1>2, Zenon DEF Without
    <2>3. \A j \in DOMAIN versions : versions[j].version \in Nat
        <3>1. \A e \in Entry : e.version \in Nat
            BY DEF Entry
        <3> QED
            BY <3>1
    <2>4. \A j \in DOMAIN versions : versions[j].version = v => j = at
        BY <2>1, <2>3 DEF Increasing
    <2>5. /\ at \in 1..Len(versions) /\ Len(versions) \in Nat
          /\ DOMAIN versions = 1..Len(versions)
        BY <2>1
    <2> HIDE DEF at
    <2>6. /\ left \in Seq(Entry)
          /\ DOMAIN left = 1..Len(versions) - 1
          /\ \A i \in DOMAIN left : left[i] = versions[IF i < at THEN i ELSE i + 1]
        <3> DEFINE before == SubSeq(versions, 1, at - 1)
                   after == SubSeq(versions, at + 1, Len(versions))
        <3>1. /\ before \in Seq(Entry) /\ Len(before) = at - 1
              /\ \A i \in 1..at - 1 : before[i] = versions[i]
            BY <2>5
        <3>2. /\ after \in Seq(Entry) /\ Len(after) = Len(versions) - at
              /\ \A i \in 1..Len(versions) - at : after[i] = versions[at + i]
            <4> DEFINE m == at + 1
                       n == Len(versions)
            <4>1. m \in Int /\ n \in Int /\ \A i \in m..n : versions[i] \in Entry
                BY <2>5
            <4>2. after = SubSeq(versions, m, n)
                OBVIOUS
            <4> HIDE DEF m, n, after
            <4>3. /\ after \in Seq(Entry)
                  /\ Len(after) = IF m <= n THEN n - m + 1 ELSE 0
                  /\ \A i \in 1..n - m + 1 : after[i] = versions[m + i - 1]
                BY <4>1, <4>2, SubSeqProperties
            <4>4. n \in Nat /\ at \in 1..n /\ n - m + 1 = n - at /\ (m <= n <=> at # n)
                <5>1. n \in Nat /\ at \in 1..n
                    BY <2>5, Zenon DEF n
                <5> QED
                    BY <5>1 DEF m
            <4>5. Len(after) = n - at
                BY <4>3, <4>4
            <4>6. ASSUME NEW i \in 1..n - at PROVE after[i] = versions[at + i]
                <5>1. m + i - 1 = at + i
                    BY <4>4, <4>6 DEF m
                <5>2. i \in 1..n - m + 1
                    BY <4>4, <4>6
                <5>3. after[i] = versions[m + i - 1]
                    BY <4>3, <5>2
                <5> QED
                    BY <5>1, <5>3
            <4> QED
                BY <4>3, <4>5, <4>6, Zenon DEF n
        <3>3. left = before \o after
            BY DEF left
        <3> HIDE DEF before, after, left
        <3>4. /\ left \in Seq(Entry) /\ Len(left) = Len(before) + Len(after)
              /\ \A i \in 1..Len(before) + Len(after) :
                    left[i] = IF i <= Len(before) THEN before[i] ELSE after[i - Len(before)]
            BY <3>1, <3>2, <3>3, ConcatProperties
        <3>5. DOMAIN left = 1..Len(versions) - 1
            BY <2>5, <3>1, <3>2, <3>4
        <3>6. ASSUME NEW i \in DOMAIN left PROVE left[i] = versions[IF i < at THEN i ELSE i + 1]
            <4>0. left[i] = IF i <= Len(before) THEN before[i] ELSE after[i - Len(before)]
                BY <3>4, <3>6
            <4>1. CASE i < at
                <5>1. i \in 1..at - 1 /\ i <= Len(before)
                    BY <2>5, <3>1, <3>5, <3>6, <4>1
                <5> QED
                    BY <3>1, <4>0, <4>1, <5>1
            <4>2. CASE ~(i < at)
                <5>1. i - (at - 1) \in 1..Len(versions) - at /\ at + (i - (at - 1)) = i + 1
                    BY <2>5, <3>5, <3>6, <4>2
                <5>2. ~(i <= Len(before)) /\ i - Len(before) = i - (at - 1)
                    BY <2>5, <3>1, <3>5, <3>6, <4>2
                <5>3. left[i] = after[i - (at - 1)]
                    BY <4>0, <5>2
                <5>4. after[i - (at - 1)] = versions[i + 1]
                    BY <3>2, <5>1
                <5> QED
                    BY <4>2, <5>3, <5>4
            <4> QED
                BY <4>1, <4>2
        <3> QED
            BY <3>4, <3>5, <3>6, Zenon
    <2> HIDE DEF left
    <2>7. ASSUME NEW i \in DOMAIN left, NEW j \in DOMAIN left, i < j
          PROVE  left[i].version < left[j].version
        <3>1. /\ left[i] = versions[IF i < at THEN i ELSE i + 1]
              /\ left[j] = versions[IF j < at THEN j ELSE j + 1]
            BY <2>6, <2>7
        <3>2. /\ (IF i < at THEN i ELSE i + 1) \in DOMAIN versions
              /\ (IF j < at THEN j ELSE j + 1) \in DOMAIN versions
              /\ (IF i < at THEN i ELSE i + 1) < (IF j < at THEN j ELSE j + 1)
            BY <2>5, <2>6, <2>7
        <3> QED
            BY <3>1, <3>2, Zenon DEF Increasing
    <2>8. ASSUME NEW i \in DOMAIN left
          PROVE  \E j \in DOMAIN versions : left[i] = versions[j] /\ versions[j].version # v
        <3>1. /\ (IF i < at THEN i ELSE i + 1) \in DOMAIN versions
              /\ (IF i < at THEN i ELSE i + 1) # at
            BY <2>5, <2>6, <2>8
        <3> QED
            BY <2>4, <2>6, <2>8, <3>1, Zenon
    <2>9. ASSUME NEW j \in DOMAIN versions, versions[j].version # v
          PROVE  \E i \in DOMAIN left : left[i] = versions[j]
        <3>1. j # at
            BY <2>1, <2>9
        <3>2. CASE j < at
            <4>1. j \in DOMAIN left /\ left[j] = versions[j]
                BY <2>5, <2>6, <2>9, <3>2
            <4> QED
                BY <4>1
        <3>3. CASE j > at
            <4>1. j - 1 \in DOMAIN left /\ ~(j - 1 < at) /\ j - 1 + 1 = j
                BY <2>5, <2>6, <2>9, <3>3
            <4>2. left[j - 1] = versions[j]
                BY <2>6, <4>1
            <4> QED
                BY <4>1, <4>2
        <3> QED
            BY <2>5, <2>9, <3>1, <3>2, <3>3
    <2>10. Increasing(left)
        BY <2>7, Zenon DEF Increasing
    <2> QED
        BY <2>2, <2>6, <2>8, <2>9, <2>10, Zenon
<1> QED
    BY <1>1, <1>2

-----------------------------------------------------------------------------
(***************************************************************************)
(* Types                                                                   *)
(***************************************************************************)

\* A request that is not refused is about a file of the run's own user.
LEMMA IdentityType ==
    ASSUME ArtifactAssumption, NEW r \in Runs, NEW q \in Requests(r),
           SaveValid(q) \/ DeleteValid(q)
    PROVE  IdentityOf(q) \in Identity /\ IdentityOf(q).file \notin BadFiles
<1>1. /\ q.owner \in {OwnerOf[r], Unset} /\ q.session \in {SessionOf[r], Unset}
      /\ q.file \in Files \cup {Unset}
    BY DEF Requests
<1>2. /\ q.owner # Unset /\ q.session # Unset /\ q.file # Unset
      /\ q.file \notin BadFiles
    BY DEF SaveValid, DeleteValid, Given, FileNameOK
<1>3. q.owner \in Owners /\ q.session \in Sessions /\ q.file \in Files
    BY <1>1, <1>2 DEF ArtifactAssumption
<1> QED
    BY <1>2, <1>3 DEF IdentityOf, Identity

\* Of some calls of a batch there is a last one.
LEMMA LastExists ==
    ASSUME NEW n \in Nat, NEW S \in SUBSET (1..n), S # {}
    PROVE  \E i \in S : \A j \in S : j <= i
<1> DEFINE less == {ss \in Nat \X Nat : ss[1] < ss[2]}
           T == {n - i : i \in S}
<1>1. IsWellFoundedOn(less, Nat)
    BY NatLessThanWellFounded, Zenon DEF OpToRel
<1>2. T \subseteq Nat /\ T # {}
    <2>1. \A i \in S : n - i \in Nat
        OBVIOUS
    <2> QED
        BY <2>1, Zenon
<1>3. PICK x \in T : \A y \in T : <<y, x>> \notin less
    <2> HIDE DEF less, T
    <2> QED
        BY <1>1, <1>2, WFMin, Zenon
<1>4. PICK i \in S : x = n - i
    OBVIOUS
<1>5. ASSUME NEW j \in S PROVE j <= i
    <2>1. n - j \in T /\ n - j \in Nat /\ x \in Nat
        BY <1>4, <1>5
    <2>2. ~(n - j < x)
        BY <2>1, <1>3
    <2> QED
        BY <2>1, <2>2, <1>4, <1>5
<1> QED
    BY <1>5

\* The calls of a batch, their deltas and what they have saved.
LEMMA CallTypes ==
    ASSUME NEW cs \in Seq(Call), NEW c \in DOMAIN cs
    PROVE  /\ cs[c] \in Call
           /\ cs[c].delta \in Delta
           /\ cs[c].saved \in [file: Files, version: Nat \ {0}] \cup {Nothing}
<1>1. \A x \in Call : /\ x.delta \in Delta
                      /\ x.saved \in [file: Files, version: Nat \ {0}] \cup {Nothing}
    BY DEF Call
<1>2. cs[c] \in Call
    OBVIOUS
<1> QED
    BY <1>1, <1>2

LEMMA MergedDeltaType ==
    ASSUME ArtifactTypeOK, NEW r \in Runs
    PROVE  MergedDelta(r) \in Delta
<1>1. calls[r] \in Seq(Call)
    BY DEF ArtifactTypeOK
<1> DEFINE merged(f) ==
            LET last == CHOOSE c \in Recorders(r, f) : \A d \in Recorders(r, f) : d <= c
            IN IF Recorders(r, f) = {} THEN 0 ELSE calls[r][last].delta[f]
<1>2. ASSUME NEW f \in Files PROVE merged(f) \in Nat
    <2> DEFINE last == CHOOSE c \in Recorders(r, f) : \A d \in Recorders(r, f) : d <= c
    <2>1. merged(f) = IF Recorders(r, f) = {} THEN 0 ELSE calls[r][last].delta[f]
        BY Zenon
    <2>2. CASE Recorders(r, f) = {}
        BY <2>1, <2>2, Zenon
    <2>3. CASE Recorders(r, f) # {}
        <3>1. Recorders(r, f) \in SUBSET (1..Len(calls[r])) /\ Len(calls[r]) \in Nat
            BY <1>1 DEF Recorders
        <3>2. last \in Recorders(r, f)
            BY <2>3, <3>1, LastExists, Zenon
        <3>3. last \in DOMAIN calls[r]
            BY <3>2, Zenon DEF Recorders
        <3>4. calls[r][last].delta \in Delta
            BY <1>1, <3>3, CallTypes, Zenon
        <3> HIDE DEF last
        <3>5. calls[r][last].delta[f] \in Nat
            BY <1>2, <3>4 DEF Delta
        <3> QED
            BY <2>1, <2>3, <3>5, Zenon DEF last
    <2> QED
        BY <2>2, <2>3
<1>3. MergedDelta(r) = [f \in Files |-> merged(f)]
    BY Zenon DEF MergedDelta
<1> HIDE DEF merged
<1> QED
    BY <1>2, <1>3 DEF Delta

\* A save stores its version under the number of the save.
LEMMA StoresType ==
    ASSUME ArtifactAssumption, ArtifactTypeOK, VersionsIncrease, NEW r \in Runs,
           NEW q \in Requests(r), SaveValid(q), NEW c \in Nat, Stores(r, c, q)
    PROVE  /\ store' \in [Identity -> Seq(Entry)]
           /\ keys' \subseteq {id \in Identity : id.file \notin BadFiles}
           /\ \A id \in Identity : store'[id] # <<>> => id \in keys'
           /\ saves' \in Seq(SaveOf)
<1> DEFINE id == IdentityOf(q)
           version == NextVersion(store[id])
           entry == [version |-> version, save |-> Len(saves) + 1]
           made == [id |-> id, version |-> version, stored |-> TRUE,
                    run |-> r, event |-> Len(events[r]) + 1, call |-> c]
<1>1. id \in Identity /\ id.file \notin BadFiles
    BY IdentityType
<1>2. /\ store' = [store EXCEPT ![id] = Append(store[id], entry)]
      /\ keys' = keys \cup {id} /\ saves' = Append(saves, made)
    BY Zenon DEF Stores
<1>3. store[id] \in Seq(Entry) /\ Increasing(store[id])
    BY <1>1 DEF ArtifactTypeOK, VersionsIncrease, Increasing
<1>4. version \in Nat \ {0}
    BY <1>3, NextIsNew
<1>5. Len(saves) + 1 \in Nat \ {0} /\ Len(events[r]) + 1 \in Nat \ {0}
    BY DEF ArtifactTypeOK
<1> HIDE DEF id, version
<1>6. entry \in Entry
    BY <1>4, <1>5 DEF Entry
<1>7. made \in SaveOf
    BY <1>1, <1>4, <1>5 DEF SaveOf
<1> HIDE DEF entry, made
<1>8. Append(store[id], entry) \in Seq(Entry)
    BY <1>3, <1>6
<1>9. store' \in [Identity -> Seq(Entry)]
    BY <1>1, <1>2, <1>8 DEF ArtifactTypeOK
<1>10. keys' \subseteq {i \in Identity : i.file \notin BadFiles}
    BY <1>1, <1>2 DEF ArtifactTypeOK
<1>11. \A i \in Identity : store'[i] # <<>> => i \in keys'
    BY <1>1, <1>2 DEF ArtifactTypeOK
<1>12. saves' \in Seq(SaveOf)
    BY <1>2, <1>7 DEF ArtifactTypeOK
<1> QED
    BY <1>9, <1>10, <1>11, <1>12

\* One call of one run gets a new record.
LEMMA CallsStepType ==
    ASSUME ArtifactTypeOK, NEW r \in Runs, NEW c \in DOMAIN calls[r], NEW x \in Call,
           calls' = [calls EXCEPT ![r] = [calls[r] EXCEPT ![c] = x]]
    PROVE  calls' \in [Runs -> Seq(Call)]
<1>1. calls[r] \in Seq(Call)
    BY DEF ArtifactTypeOK
<1>2. [calls[r] EXCEPT ![c] = x] \in Seq(Call)
    BY <1>1
<1> QED
    BY <1>2 DEF ArtifactTypeOK

LEMMA TypeStep ==
    ASSUME ArtifactAssumption, ArtifactTypeOK, VersionsIncrease, [Next]_vars
    PROVE  ArtifactTypeOK'
<1>0. \A r \in Runs : calls[r] \in Seq(Call)
    BY DEF ArtifactTypeOK
<1>a. NoDelta \in Delta
    BY DEF NoDelta, Delta
<1>b. NewCall \in Call
    BY <1>a DEF NewCall, Call
<1>1. ASSUME NEW r \in Runs, Start(r) PROVE ArtifactTypeOK'
    <2>1. [c \in 1..MaxCalls |-> NewCall] \in Seq(Call)
        BY <1>b DEF ArtifactAssumption
    <2>2. calls' \in [Runs -> Seq(Call)]
        BY <1>1, <2>1 DEF Start, ArtifactTypeOK
    <2> QED
        BY <1>1, <2>2 DEF Start, ArtifactTypeOK
<1>2. ASSUME NEW r \in Runs, NEW c \in DOMAIN calls[r], NEW q \in Requests(r), CallSaves(r, c, q)
      PROVE  ArtifactTypeOK'
    <2> DEFINE saved == [file |-> q.file, version |-> NextVersion(store[IdentityOf(q)])]
    <2>1. /\ SaveValid(q) /\ Stores(r, c, q) /\ UNCHANGED events
          /\ calls' = [calls EXCEPT ![r][c].saved = saved]
        BY <1>2, Zenon DEF CallSaves
    <2>2. c \in Nat
        BY <1>0, <1>2
    <2>3. /\ store' \in [Identity -> Seq(Entry)]
          /\ keys' \subseteq {id \in Identity : id.file \notin BadFiles}
          /\ \A id \in Identity : store'[id] # <<>> => id \in keys'
          /\ saves' \in Seq(SaveOf)
        BY <1>2, <2>1, <2>2, StoresType, Zenon
    <2>4. IdentityOf(q) \in Identity
        BY <1>2, <2>1, IdentityType, Zenon
    <2>5. NextVersion(store[IdentityOf(q)]) \in Nat \ {0}
        BY <2>4, NextIsNew DEF ArtifactTypeOK, VersionsIncrease, Increasing
    <2>6. q.file \in Files
        BY <1>2, <2>1 DEF Requests, SaveValid
    <2>7. saved \in [file: Files, version: Nat \ {0}]
        BY <2>5, <2>6
    <2>8. calls[r][c] \in Call
        BY <1>0, <1>2, CallTypes
    <2> HIDE DEF saved
    <2>9. [calls[r][c] EXCEPT !.saved = saved] \in Call
        BY <2>7, <2>8 DEF Call
    <2>10. calls' \in [Runs -> Seq(Call)]
        BY <1>0, <1>2, <2>1, <2>9, CallsStepType DEF ArtifactTypeOK
    <2> QED
        BY <2>1, <2>3, <2>10 DEF ArtifactTypeOK
<1>3. ASSUME NEW r \in Runs, NEW c \in DOMAIN calls[r], Record(r, c) PROVE ArtifactTypeOK'
    <2> DEFINE file == calls[r][c].saved.file
               x == [calls[r][c] EXCEPT !.delta[file] = calls[r][c].saved.version,
                                        !.saved = Nothing]
    <2>1. /\ calls[r][c].saved # Nothing /\ UNCHANGED <<store, keys, events, saves>>
          /\ calls' = [calls EXCEPT ![r][c].delta[file] = calls[r][c].saved.version,
                                    ![r][c].saved = Nothing]
        BY <1>3, Zenon DEF Record
    <2>2. /\ calls[r][c] \in Call /\ calls[r][c].delta \in Delta
          /\ calls[r][c].saved \in [file: Files, version: Nat \ {0}]
        BY <1>0, <1>3, <2>1, CallTypes
    <2>3. file \in Files /\ calls[r][c].saved.version \in Nat
        BY <2>2
    <2>4. calls' = [calls EXCEPT ![r] = [calls[r] EXCEPT ![c] = x]]
        BY <1>0, <1>3, <2>1 DEF ArtifactTypeOK
    <2> HIDE DEF file
    <2>5. [calls[r][c].delta EXCEPT ![file] = calls[r][c].saved.version] \in Delta
        BY <2>2, <2>3 DEF Delta
    <2>6. x \in Call
        BY <2>2, <2>5 DEF Call
    <2> HIDE DEF x
    <2>7. calls' \in [Runs -> Seq(Call)]
        BY <1>3, <2>4, <2>6, CallsStepType
    <2> QED
        BY <2>1, <2>7 DEF ArtifactTypeOK
<1>4. ASSUME NEW r \in Runs, NEW q \in Requests(r), PlainSave(r, q) PROVE ArtifactTypeOK'
    <2>1. SaveValid(q) /\ Stores(r, 0, q) /\ UNCHANGED <<calls, events>>
        BY <1>4, Zenon DEF PlainSave
    <2>2. /\ store' \in [Identity -> Seq(Entry)]
          /\ keys' \subseteq {id \in Identity : id.file \notin BadFiles}
          /\ \A id \in Identity : store'[id] # <<>> => id \in keys'
          /\ saves' \in Seq(SaveOf)
        BY <1>4, <2>1, StoresType
    <2> QED
        BY <2>1, <2>2 DEF ArtifactTypeOK
<1>5. ASSUME NEW r \in Runs, Merge(r) PROVE ArtifactTypeOK'
    <2>1. MergedDelta(r) \in Delta
        BY <1>5, MergedDeltaType
    <2>2. events' \in [Runs -> Seq(Delta)] /\ calls' \in [Runs -> Seq(Call)]
        BY <1>5, <2>1 DEF Merge, ArtifactTypeOK
    <2> QED
        BY <1>5, <2>2 DEF Merge, ArtifactTypeOK
<1>6. ASSUME NEW r \in Runs, NEW q \in Requests(r), NEW v \in 0..MaxSaves, Delete(q, v)
      PROVE  ArtifactTypeOK'
    <2> DEFINE id == IdentityOf(q)
    <2>1. /\ DeleteValid(q)
          /\ store' = [store EXCEPT ![id] = IF v = 0 THEN <<>> ELSE Without(store[id], v)]
          /\ keys' = IF v = 0 THEN keys \ {id} ELSE keys
          /\ saves' = [i \in DOMAIN saves |->
                           IF Removes(i, id, v) THEN [saves[i] EXCEPT !.stored = FALSE]
                           ELSE saves[i]]
          /\ UNCHANGED <<calls, events>> /\ store[id] # <<>>
        BY <1>6, Zenon DEF Delete
    <2>2. id \in Identity
        BY <1>6, <2>1, IdentityType
    <2> HIDE DEF id
    <2>3. Without(store[id], v) \in Seq(Entry)
        BY <2>2, WithoutKeeps DEF ArtifactTypeOK, VersionsIncrease, Increasing
    <2>4. <<>> \in Seq(Entry)
        OBVIOUS
    <2>5. store' \in [Identity -> Seq(Entry)]
        BY <2>1, <2>2, <2>3, <2>4 DEF ArtifactTypeOK
    <2>6. keys' \subseteq {i \in Identity : i.file \notin BadFiles}
        BY <2>1 DEF ArtifactTypeOK
    <2>7. \A i \in Identity : store'[i] # <<>> => i \in keys'
        <3>1. id \in keys
            BY <2>1, <2>2, Zenon DEF ArtifactTypeOK
        <3>2. CASE v = 0
            BY <2>1, <2>2, <3>2 DEF ArtifactTypeOK
        <3>3. CASE v # 0
            BY <2>1, <2>2, <3>1, <3>3 DEF ArtifactTypeOK
        <3> QED
            BY <3>2, <3>3
    <2>8. saves' \in Seq(SaveOf)
        <3>1. \A x \in SaveOf : [x EXCEPT !.stored = FALSE] \in SaveOf
            BY DEF SaveOf
        <3>2. \A i \in DOMAIN saves : saves[i] \in SaveOf
            BY DEF ArtifactTypeOK
        <3>3. \A i \in DOMAIN saves : saves'[i] \in SaveOf
            BY <2>1, <3>1, <3>2, Zenon
        <3>4. saves' = [i \in 1..Len(saves) |-> saves'[i]] /\ Len(saves) \in Nat
              /\ DOMAIN saves = 1..Len(saves)
            BY <2>1 DEF ArtifactTypeOK
        <3> QED
            BY <3>3, <3>4
    <2> QED
        BY <2>1, <2>5, <2>6, <2>7, <2>8 DEF ArtifactTypeOK
<1>7. CASE UNCHANGED vars
    BY <1>7 DEF vars, ArtifactTypeOK
<1> QED
    BY <1>1, <1>2, <1>3, <1>4, <1>5, <1>6, <1>7 DEF Next

-----------------------------------------------------------------------------
(***************************************************************************)
(* The entries and the saves                                               *)
(***************************************************************************)

\* What the steps that store and delete nothing leave.
LEMMA Kept ==
    ASSUME VersionsIncrease, EntriesAreSaves, SavesHaveEntries, UNCHANGED <<store, saves>>
    PROVE  Named'
BY DEF Named, VersionsIncrease, EntriesAreSaves, SavesHaveEntries

LEMMA StoresStep ==
    ASSUME ArtifactAssumption, ArtifactInv, NEW r \in Runs, NEW q \in Requests(r),
           SaveValid(q), NEW c, Stores(r, c, q)
    PROVE  Named'
<1> DEFINE id == IdentityOf(q)
           version == NextVersion(store[id])
           entry == [version |-> version, save |-> Len(saves) + 1]
           made == [id |-> id, version |-> version, stored |-> TRUE,
                    run |-> r, event |-> Len(events[r]) + 1, call |-> c]
<1>0. ArtifactTypeOK /\ VersionsIncrease /\ EntriesAreSaves /\ SavesHaveEntries
    BY Zenon DEF ArtifactInv
<1>1. id \in Identity
    BY IdentityType
<1>2. /\ store' = [store EXCEPT ![id] = Append(store[id], entry)]
      /\ saves' = Append(saves, made)
    BY Zenon DEF Stores
<1>3. store[id] \in Seq(Entry) /\ Increasing(store[id]) /\ saves \in Seq(SaveOf)
    BY <1>0, <1>1 DEF ArtifactTypeOK, VersionsIncrease, Increasing
<1>4. /\ version \in Nat
      /\ \A i \in DOMAIN store[id] : store[id][i].version < version
    BY <1>3, NextIsNew
<1>5. made.id = id /\ made.version = version /\ made.stored
    BY Zenon
<1>6. entry.version = version /\ entry.save = Len(saves) + 1
    BY Zenon
<1> HIDE DEF id, version, made
<1>7. /\ Len(saves) \in Nat /\ DOMAIN saves = 1..Len(saves)
      /\ DOMAIN saves' = 1..Len(saves) + 1 /\ saves'[Len(saves) + 1] = made
      /\ \A n \in DOMAIN saves : saves'[n] = saves[n]
    BY <1>2, <1>3
<1> HIDE DEF entry
<1>8. /\ Len(store[id]) \in Nat /\ DOMAIN store[id] = 1..Len(store[id])
      /\ DOMAIN store'[id] = 1..Len(store[id]) + 1
      /\ store'[id][Len(store[id]) + 1] = entry
      /\ \A i \in DOMAIN store[id] : store'[id][i] = store[id][i]
    BY <1>0, <1>1, <1>2, <1>3 DEF ArtifactTypeOK
<1>9. \A k \in Identity : k # id => store'[k] = store[k]
    BY <1>0, <1>2 DEF ArtifactTypeOK
<1>10. VersionsIncrease'
    <2> SUFFICES ASSUME NEW k \in Identity, NEW i \in DOMAIN store'[k],
                        NEW j \in DOMAIN store'[k], i < j
                 PROVE  store'[k][i].version < store'[k][j].version
        BY Zenon DEF VersionsIncrease
    <2>1. CASE k # id
        BY <1>0, <1>9, <2>1 DEF VersionsIncrease
    <2>2. CASE k = id /\ j = Len(store[id]) + 1
        <3>1. i \in DOMAIN store[id]
            BY <1>8, <2>2
        <3> QED
            BY <1>4, <1>6, <1>8, <2>2, <3>1
    <2>3. CASE k = id /\ j # Len(store[id]) + 1
        <3>1. i \in DOMAIN store[id] /\ j \in DOMAIN store[id]
            BY <1>8, <2>3
        <3> QED
            BY <1>3, <1>8, <2>3, <3>1 DEF Increasing
    <2> QED
        BY <2>1, <2>2, <2>3
<1>11. EntriesAreSaves'
    <2> SUFFICES ASSUME NEW k \in Identity, NEW i \in DOMAIN store'[k]
                 PROVE  /\ store'[k][i].save \in DOMAIN saves'
                        /\ saves'[store'[k][i].save].id = k
                        /\ saves'[store'[k][i].save].version = store'[k][i].version
                        /\ saves'[store'[k][i].save].stored
        BY Zenon DEF EntriesAreSaves
    <2>1. CASE i \in DOMAIN store[k] /\ store'[k][i] = store[k][i]
        <3>1. /\ store[k][i].save \in DOMAIN saves
              /\ saves[store[k][i].save].id = k
              /\ saves[store[k][i].save].version = store[k][i].version
              /\ saves[store[k][i].save].stored
            BY <1>0, <2>1, Zenon DEF EntriesAreSaves
        <3>2. DOMAIN saves \subseteq DOMAIN saves'
            BY <1>7
        <3> QED
            BY <1>7, <2>1, <3>1, <3>2, Zenon
    <2>2. CASE k = id /\ i = Len(store[id]) + 1
        <3>1. store'[k][i] = entry
            BY <1>8, <2>2
        <3>2. Len(saves) + 1 \in DOMAIN saves'
            BY <1>7
        <3> QED
            BY <1>5, <1>6, <1>7, <2>2, <3>1, <3>2, Zenon
    <2> QED
        BY <1>8, <1>9, <2>1, <2>2
<1>12. SavesHaveEntries'
    <2> SUFFICES ASSUME NEW n \in DOMAIN saves', saves'[n].stored
                 PROVE  \E i \in DOMAIN store'[saves'[n].id] :
                            store'[saves'[n].id][i] = [version |-> saves'[n].version, save |-> n]
        BY Zenon DEF SavesHaveEntries
    <2>1. CASE n = Len(saves) + 1
        <3>1. saves'[n] = made
            BY <1>7, <2>1
        <3>2. Len(store[id]) + 1 \in DOMAIN store'[id]
            BY <1>8
        <3>3. entry = [version |-> version, save |-> n]
            BY <2>1 DEF entry
        <3> QED
            BY <1>5, <1>8, <3>1, <3>2, <3>3, Zenon
    <2>2. CASE n # Len(saves) + 1
        <3>1. n \in DOMAIN saves /\ saves'[n] = saves[n]
            BY <1>7, <2>2
        <3> DEFINE k == saves[n].id
        <3>2. PICK i \in DOMAIN store[k] :
                 store[k][i] = [version |-> saves[n].version, save |-> n]
            BY <1>0, <3>1, Zenon DEF SavesHaveEntries
        <3>3. k \in Identity
            <4>1. \A x \in SaveOf : x.id \in Identity
                BY DEF SaveOf
            <4> QED
                BY <1>3, <3>1, <4>1
        <3>4. i \in DOMAIN store'[k] /\ store'[k][i] = store[k][i]
            <4>1. CASE k = id
                BY <1>8, <3>2, <4>1
            <4>2. CASE k # id
                BY <1>9, <3>2, <3>3, <4>2
            <4> QED
                BY <4>1, <4>2
        <3> QED
            BY <3>1, <3>2, <3>4, Zenon
    <2> QED
        BY <2>1, <2>2
<1> QED
    BY <1>10, <1>11, <1>12, Zenon DEF Named

LEMMA DeleteStep ==
    ASSUME ArtifactAssumption, ArtifactInv, NEW r \in Runs, NEW q \in Requests(r),
           NEW v \in 0..MaxSaves, Delete(q, v)
    PROVE  Named'
<1> DEFINE id == IdentityOf(q)
<1>0. ArtifactTypeOK /\ VersionsIncrease /\ EntriesAreSaves /\ SavesHaveEntries
    BY Zenon DEF ArtifactInv
<1>1. /\ DeleteValid(q)
      /\ store' = [store EXCEPT ![id] = IF v = 0 THEN <<>> ELSE Without(store[id], v)]
      /\ saves' = [i \in DOMAIN saves |->
                       IF Removes(i, id, v) THEN [saves[i] EXCEPT !.stored = FALSE]
                       ELSE saves[i]]
    BY Zenon DEF Delete
<1>2. id \in Identity
    BY <1>1, IdentityType
<1> HIDE DEF id
<1> DEFINE left == store'[id]
<1>3. \A k \in Identity : k # id => store'[k] = store[k]
    BY <1>0, <1>1 DEF ArtifactTypeOK
<1>4. left = IF v = 0 THEN <<>> ELSE Without(store[id], v)
    BY <1>0, <1>1, <1>2 DEF ArtifactTypeOK
\* What is left are the entries that the saves lose no mark for.
<1>5. /\ Increasing(left)
      /\ \A i \in DOMAIN left : \E j \in DOMAIN store[id] :
            left[i] = store[id][j] /\ v \notin {0, store[id][j].version}
      /\ \A j \in DOMAIN store[id] : v \notin {0, store[id][j].version} =>
            \E i \in DOMAIN left : left[i] = store[id][j]
    <2>1. CASE v = 0
        <3>1. DOMAIN left = {}
            BY <1>4, <2>1
        <3> QED
            BY <2>1, <3>1 DEF Increasing
    <2>2. CASE v # 0
        <3>1. store[id] \in Seq(Entry) /\ Increasing(store[id])
            BY <1>0, <1>2 DEF ArtifactTypeOK, VersionsIncrease, Increasing
        <3>2. left = Without(store[id], v)
            BY <1>4, <2>2
        <3> HIDE DEF left
        <3>3. /\ Increasing(left)
              /\ \A i \in DOMAIN left : \E j \in DOMAIN store[id] :
                    left[i] = store[id][j] /\ store[id][j].version # v
              /\ \A j \in DOMAIN store[id] : store[id][j].version # v =>
                    \E i \in DOMAIN left : left[i] = store[id][j]
            BY <3>1, <3>2, WithoutKeeps
        <3>4. \A j \in DOMAIN store[id] :
                 v \notin {0, store[id][j].version} <=> store[id][j].version # v
            BY <2>2
        <3> QED
            BY <3>3, <3>4, Zenon
    <2> QED
        BY <2>1, <2>2
<1>6. \A n \in DOMAIN saves : ~Removes(n, id, v) => saves'[n] = saves[n]
    BY <1>1, Zenon
<1>7. DOMAIN saves' = DOMAIN saves
    BY <1>1, Zenon
<1>8. \A n \in DOMAIN saves : Removes(n, id, v) => ~saves'[n].stored
    <2> SUFFICES ASSUME NEW n \in DOMAIN saves, Removes(n, id, v) PROVE ~saves'[n].stored
        BY Zenon
    <2>1. PICK x \in SaveOf : x = saves[n]
        BY <1>0 DEF ArtifactTypeOK
    <2>2. saves'[n] = [x EXCEPT !.stored = FALSE]
        BY <1>1, <2>1, Zenon
    <2> QED
        BY <2>1, <2>2 DEF SaveOf
<1> HIDE DEF left
<1>9. VersionsIncrease'
    <2> SUFFICES ASSUME NEW k \in Identity
                 PROVE  Increasing(store'[k])
        BY Zenon DEF VersionsIncrease, Increasing
    <2>1. CASE k = id
        BY <1>5, <2>1 DEF left
    <2>2. CASE k # id
        BY <1>0, <1>3, <2>2 DEF VersionsIncrease, Increasing
    <2> QED
        BY <2>1, <2>2
<1>10. EntriesAreSaves'
    <2> SUFFICES ASSUME NEW k \in Identity, NEW i \in DOMAIN store'[k]
                 PROVE  /\ store'[k][i].save \in DOMAIN saves'
                        /\ saves'[store'[k][i].save].id = k
                        /\ saves'[store'[k][i].save].version = store'[k][i].version
                        /\ saves'[store'[k][i].save].stored
        BY Zenon DEF EntriesAreSaves
    <2>1. PICK j \in DOMAIN store[k] :
             /\ store'[k][i] = store[k][j]
             /\ k = id => v \notin {0, store[k][j].version}
        <3>1. CASE k = id
            BY <1>5, <3>1, Zenon DEF left
        <3>2. CASE k # id
            BY <1>3, <3>2, Zenon
        <3> QED
            BY <3>1, <3>2
    <2>2. /\ store[k][j].save \in DOMAIN saves
          /\ saves[store[k][j].save].id = k
          /\ saves[store[k][j].save].version = store[k][j].version
          /\ saves[store[k][j].save].stored
        BY <1>0, <2>1, Zenon DEF EntriesAreSaves
    <2>3. PICK n \in DOMAIN saves :
             /\ n = store'[k][i].save /\ saves[n].id = k /\ saves[n].stored
             /\ saves[n].version = store'[k][i].version
             /\ k = id => v \notin {0, saves[n].version}
        <3> DEFINE e == store[k][j]
        <3>1. /\ e.save \in DOMAIN saves /\ saves[e.save].id = k
              /\ saves[e.save].version = e.version /\ saves[e.save].stored
            BY <2>2, Zenon
        <3>2. store'[k][i] = e
            BY <2>1, Zenon
        <3>3. e.save = store'[k][i].save /\ e.version = store'[k][i].version
            BY <3>2, Zenon
        <3>4. k = id => v \notin {0, saves[e.save].version}
            BY <2>1, <3>1
        <3> QED
            BY <3>1, <3>3, <3>4
    <2>4. ~Removes(n, id, v)
        BY <2>3, Zenon DEF Removes
    <2>5. saves'[n] = saves[n] /\ n \in DOMAIN saves'
        BY <1>6, <1>7, <2>3, <2>4, Zenon
    <2> QED
        BY <2>3, <2>5, Zenon
<1>11. SavesHaveEntries'
    <2> SUFFICES ASSUME NEW n \in DOMAIN saves', saves'[n].stored
                 PROVE  \E i \in DOMAIN store'[saves'[n].id] :
                            store'[saves'[n].id][i] = [version |-> saves'[n].version, save |-> n]
        BY Zenon DEF SavesHaveEntries
    <2>1. n \in DOMAIN saves /\ ~Removes(n, id, v) /\ saves'[n] = saves[n]
        BY <1>6, <1>7, <1>8, Zenon
    <2> DEFINE k == saves[n].id
    <2>2. PICK j \in DOMAIN store[k] :
             store[k][j] = [version |-> saves[n].version, save |-> n]
        BY <1>0, <2>1, Zenon DEF SavesHaveEntries
    <2>3. k \in Identity
        <3>1. \A x \in SaveOf : x.id \in Identity
            BY DEF SaveOf
        <3> QED
            BY <1>0, <2>1, <3>1 DEF ArtifactTypeOK
    <2>4. store[k][j].version = saves[n].version
        BY <2>2
    <2>5. \E i \in DOMAIN store'[k] : store'[k][i] = store[k][j]
        <3>1. CASE k = id
            <4>1. v \notin {0, store[k][j].version}
                BY <2>1, <2>4, <3>1, Zenon DEF Removes
            <4> QED
                BY <1>5, <2>2, <3>1, <4>1, Zenon DEF left
        <3>2. CASE k # id
            BY <1>3, <2>2, <2>3, <3>2, Zenon
        <3> QED
            BY <3>1, <3>2
    <2> QED
        BY <2>1, <2>2, <2>5, Zenon
<1> QED
    BY <1>9, <1>10, <1>11, Zenon DEF Named

-----------------------------------------------------------------------------
(***************************************************************************)
(* The theorem                                                             *)
(***************************************************************************)

LEMMA InvInit ==
    ASSUME Init
    PROVE  ArtifactInv
<1>1. ArtifactTypeOK
    <2>1. /\ store \in [Identity -> Seq(Entry)] /\ \A id \in Identity : store[id] = <<>>
          /\ calls \in [Runs -> Seq(Call)] /\ events \in [Runs -> Seq(Delta)]
          /\ saves \in Seq(SaveOf) /\ keys = {}
        BY DEF Init
    <2> QED
        BY <2>1 DEF ArtifactTypeOK
<1>2. \A id \in Identity : DOMAIN store[id] = {}
    BY DEF Init
<1>3. DOMAIN saves = {}
    BY DEF Init
<1> QED
    BY <1>1, <1>2, <1>3, Zenon
       DEF ArtifactInv, VersionsIncrease, EntriesAreSaves, SavesHaveEntries

LEMMA InvStep ==
    ASSUME ArtifactAssumption, ArtifactInv, [Next]_vars
    PROVE  ArtifactInv'
<1>0. ArtifactTypeOK /\ VersionsIncrease /\ EntriesAreSaves /\ SavesHaveEntries
    BY Zenon DEF ArtifactInv
<1>1. ASSUME NEW r \in Runs, Start(r) \/ Merge(r) PROVE Named'
    BY <1>0, <1>1, Kept, Zenon DEF Start, Merge
<1>2. ASSUME NEW r \in Runs, NEW c \in DOMAIN calls[r], Record(r, c) PROVE Named'
    BY <1>0, <1>2, Kept, Zenon DEF Record
<1>3. ASSUME NEW r \in Runs, NEW c \in DOMAIN calls[r], NEW q \in Requests(r), CallSaves(r, c, q)
      PROVE  Named'
    BY <1>3, StoresStep, Zenon DEF CallSaves
<1>4. ASSUME NEW r \in Runs, NEW q \in Requests(r), PlainSave(r, q) PROVE Named'
    BY <1>4, StoresStep, Zenon DEF PlainSave
<1>5. ASSUME NEW r \in Runs, NEW q \in Requests(r), NEW v \in 0..MaxSaves, Delete(q, v)
      PROVE  Named'
    BY <1>5, DeleteStep, Zenon
<1>6. ASSUME UNCHANGED vars PROVE Named'
    BY <1>0, <1>6, Kept, Zenon DEF vars
<1>7. Named'
    <2>1. ASSUME Next PROVE Named'
        <3>1. PICK r \in Runs :
                 \/ Start(r) \/ Merge(r)
                 \/ \E c \in DOMAIN calls[r] : Record(r, c) \/ \E q \in Requests(r) : CallSaves(r, c, q)
                 \/ \E q \in Requests(r) :
                       PlainSave(r, q) \/ \E v \in 0..MaxSaves : Delete(q, v)
            BY <2>1, Zenon DEF Next
        <3> QED
            BY <1>1, <1>2, <1>3, <1>4, <1>5, <3>1, Zenon
    <2> QED
        BY <1>6, <2>1
<1>8. ArtifactTypeOK'
    BY <1>0, TypeStep, Zenon
<1>9. VersionsIncrease' /\ EntriesAreSaves' /\ SavesHaveEntries'
    BY <1>7, Zenon DEF Named
<1> QED
    BY <1>8, <1>9, Zenon DEF ArtifactInv

(***************************************************************************)
(* However many runs save and delete concurrently, the versions of a file  *)
(* are stored in increasing order, and a file holds under its own version  *)
(* each save that no Delete has meant, and nothing else.                   *)
(***************************************************************************)
THEOREM VersionsAlwaysNameSaves == Spec => []VersionsNameSaves
<1>1. ArtifactAssumption
    BY ArtifactAssumption
<1>2. Init => ArtifactInv
    BY InvInit
<1>3. ArtifactInv /\ [Next]_vars => ArtifactInv'
    BY <1>1, InvStep
<1>4. ASSUME ArtifactInv PROVE VersionsNameSaves
    <2>1. ArtifactTypeOK /\ VersionsIncrease /\ EntriesAreSaves /\ SavesHaveEntries
        BY <1>4, Zenon DEF ArtifactInv
    <2>2. ASSUME NEW id \in Identity, NEW n \in DOMAIN saves, NEW i \in DOMAIN store[id],
                 store[id][i] = [version |-> saves[n].version, save |-> n]
          PROVE  saves[n].id = id /\ saves[n].stored
        <3>1. store[id][i].save = n
            BY <2>2
        <3> QED
            BY <2>1, <2>2, <3>1, Zenon DEF EntriesAreSaves
    <2>3. StoredUntilDeleted
        BY <2>1, <2>2, Zenon DEF StoredUntilDeleted, SavesHaveEntries
    <2> QED
        BY <2>1, <2>3, Zenon DEF VersionsNameSaves
<1> QED
    BY <1>2, <1>3, <1>4, PTL DEF Spec


-----------------------------------------------------------------------------
(***************************************************************************)
(* What readers find, and what events record                               *)
(***************************************************************************)

\* A higher version of a file is a later save.
LaterIsNewer ==
    \A id \in Identity : \A i, j \in DOMAIN store[id] :
        store[id][i].version < store[id][j].version => store[id][i].save < store[id][j].save

\* A run saves files of its own user and session, under names that Validate accepts.
OwnSave(s) ==
    /\ s.id.owner = OwnerOf[s.run]
    /\ s.id.session = IF s.id.file \in UserFiles THEN UserScoped ELSE SessionOf[s.run]
    /\ s.id.file \notin BadFiles

SavesAreOwn == \A n \in DOMAIN saves : OwnSave(saves[n])

KeysWereSaved == \A id \in keys : \E n \in DOMAIN saves : saves[n].id = id

FindInv == LaterIsNewer /\ SavesAreOwn /\ KeysWereSaved

\* n is the last save of S: of the last call, its last one.
LastSave(S, n) ==
    /\ n \in S
    /\ \A m \in S : \/ saves[m].call < saves[n].call
                    \/ saves[m].call = saves[n].call /\ m <= n

\* v is what a delta has to say of the saves in S.
Tells(S, v) ==
    IF S = {} THEN v = 0 ELSE \E n \in S : LastSave(S, n) /\ v = saves[n].version

\* The saves of f by call c of the batch in progress.
SavesOf(r, c, f) ==
    {n \in SavesBehind(r, Len(events[r]) + 1, f) : saves[n].call = c}

\* The version of f that a call has recorded, or is about to record.
Known(call, f) == IF call.saved.file = f THEN call.saved.version ELSE call.delta[f]

\* Deltas tell the saves behind them, and a save by a call is behind an event of its run or
\* belongs to a call in progress.
EventsTell ==
    \A r \in Runs : \A e \in DOMAIN events[r] : \A f \in Files :
        Tells(SavesBehind(r, e, f), events[r][e][f])

CallsTell ==
    \A r \in Runs : \A c \in DOMAIN calls[r] : \A f \in Files :
        Tells(SavesOf(r, c, f), Known(calls[r][c], f))

SavesInBatches ==
    \A n \in DOMAIN saves : saves[n].call > 0 =>
        LET r == saves[n].run IN
        \/ saves[n].event \in DOMAIN events[r]
        \/ saves[n].event = Len(events[r]) + 1 /\ saves[n].call \in DOMAIN calls[r]

RecordInv == EventsTell /\ CallsTell /\ SavesInBatches

-----------------------------------------------------------------------------
(***************************************************************************)
(* Readers find the file                                                   *)
(***************************************************************************)

\* A run's save is listed after the earlier ones, with a version above all that are stored.
LEMMA StoresAdds ==
    ASSUME ArtifactAssumption, ArtifactInv, NEW r \in Runs, NEW q \in Requests(r), SaveValid(q),
           NEW c \in Nat, Stores(r, c, q)
    PROVE  /\ Len(saves) \in Nat /\ DOMAIN saves = 1..Len(saves)
           /\ DOMAIN saves' = 1..Len(saves) + 1
           /\ \A n \in DOMAIN saves : saves'[n] = saves[n]
           /\ saves'[Len(saves) + 1] =
                 [id |-> IdentityOf(q), version |-> NextVersion(store[IdentityOf(q)]),
                  stored |-> TRUE, run |-> r, event |-> Len(events[r]) + 1, call |-> c]
           /\ IdentityOf(q) \in Identity
<1>1. saves \in Seq(SaveOf)
    BY Zenon DEF ArtifactInv, ArtifactTypeOK
<1>2. PICK new : /\ saves' = Append(saves, new)
                 /\ new = [id |-> IdentityOf(q), version |-> NextVersion(store[IdentityOf(q)]),
                           stored |-> TRUE, run |-> r, event |-> Len(events[r]) + 1, call |-> c]
    BY Zenon DEF Stores
<1>3. /\ Len(saves) \in Nat /\ DOMAIN saves = 1..Len(saves)
      /\ DOMAIN saves' = 1..Len(saves) + 1 /\ saves'[Len(saves) + 1] = new
      /\ \A n \in DOMAIN saves : saves'[n] = saves[n]
    BY <1>1, <1>2
<1>4. IdentityOf(q) \in Identity
    BY IdentityType
<1> QED
    BY <1>2, <1>3, <1>4, Zenon

\* and its entry after those of the file.
LEMMA EntriesAdded ==
    ASSUME ArtifactAssumption, ArtifactInv, NEW r \in Runs, NEW q \in Requests(r), SaveValid(q),
           NEW c \in Nat, Stores(r, c, q), NEW id \in Identity, NEW i \in DOMAIN store'[id]
    PROVE  \/ i \in DOMAIN store[id] /\ store'[id][i] = store[id][i]
           \/ /\ i = Len(store[id]) + 1 /\ store'[id][i].save = Len(saves) + 1
              /\ store'[id][i].version \in Nat
              /\ \A j \in DOMAIN store[id] : store[id][j].version < store'[id][i].version
<1>1. store \in [Identity -> Seq(Entry)] /\ \A k \in Identity : Increasing(store[k])
    BY Zenon DEF ArtifactInv, ArtifactTypeOK, VersionsIncrease, Increasing
<1>2. PICK k, new : /\ store' = [store EXCEPT ![k] = Append(@, new)] /\ k = IdentityOf(q)
                    /\ new = [version |-> NextVersion(store[k]), save |-> Len(saves) + 1]
    BY Zenon DEF Stores
<1>3. k \in Identity
    BY <1>2, IdentityType
<1>4. CASE id # k
    BY <1>1, <1>2, <1>4
<1>5. CASE id = k
    <2>1. /\ store'[k] = Append(store[k], new) /\ store[k] \in Seq(Entry)
        BY <1>1, <1>2, <1>3
    <2>2. CASE i \in DOMAIN store[k]
        BY <1>5, <2>1, <2>2
    <2>3. CASE i \notin DOMAIN store[k]
        <3>1. store'[k][i] = new /\ i = Len(store[k]) + 1
            BY <1>5, <2>1, <2>3
        <3>2. /\ NextVersion(store[k]) \in Nat
              /\ \A j \in DOMAIN store[k] : store[k][j].version < NextVersion(store[k])
            BY <1>1, <1>3, <2>1, NextIsNew
        <3>3. new.save = Len(saves) + 1 /\ new.version = NextVersion(store[k])
            BY <1>2
        <3> QED
            BY <1>2, <1>5, <3>1, <3>2, <3>3, Zenon
    <2> QED
        BY <2>2, <2>3
<1> QED
    BY <1>4, <1>5

\* The numbers of entries.
LEMMA EntryNumbers ==
    ASSUME ArtifactInv, NEW id \in Identity, NEW i \in DOMAIN store[id]
    PROVE  store[id][i].version \in Nat \ {0} /\ store[id][i].save \in DOMAIN saves
<1>1. store[id] \in Seq(Entry)
    BY DEF ArtifactInv, ArtifactTypeOK
<1>2. store[id][i] \in Entry
    BY <1>1
<1>3. \A e \in Entry : e.version \in Nat \ {0}
    BY DEF Entry
<1>4. store[id][i].save \in DOMAIN saves
    BY Zenon DEF ArtifactInv, EntriesAreSaves
<1> QED
    BY <1>2, <1>3, <1>4

LEMMA StoresFind ==
    ASSUME ArtifactAssumption, ArtifactInv, FindInv, NEW r \in Runs, NEW q \in Requests(r),
           SaveValid(q), NEW c \in Nat, Stores(r, c, q)
    PROVE  FindInv'
<1>0. /\ Len(saves) \in Nat /\ DOMAIN saves = 1..Len(saves)
      /\ DOMAIN saves' = 1..Len(saves) + 1
      /\ \A n \in DOMAIN saves : saves'[n] = saves[n]
      /\ saves'[Len(saves) + 1] =
            [id |-> IdentityOf(q), version |-> NextVersion(store[IdentityOf(q)]),
             stored |-> TRUE, run |-> r, event |-> Len(events[r]) + 1, call |-> c]
    BY StoresAdds
<1>1. LaterIsNewer'
    <2> SUFFICES ASSUME NEW id \in Identity, NEW i \in DOMAIN store'[id],
                        NEW j \in DOMAIN store'[id],
                        store'[id][i].version < store'[id][j].version
                 PROVE  store'[id][i].save < store'[id][j].save
        BY Zenon DEF LaterIsNewer
    <2>1. /\ i \in DOMAIN store[id] => store[id][i].version \in Nat /\ store[id][i].save \in Nat
                                       /\ store[id][i].save < Len(saves) + 1
          /\ j \in DOMAIN store[id] => store[id][j].version \in Nat
        BY <1>0, EntryNumbers
    <2>2. CASE i \in DOMAIN store[id] /\ store'[id][i] = store[id][i]
        <3>1. CASE j \in DOMAIN store[id] /\ store'[id][j] = store[id][j]
            BY <2>2, <3>1 DEF FindInv, LaterIsNewer
        <3>2. CASE store'[id][j].save = Len(saves) + 1
            BY <2>1, <2>2, <3>2
        <3> QED
            BY <3>1, <3>2, EntriesAdded
    <2>3. CASE /\ i = Len(store[id]) + 1 /\ store'[id][i].version \in Nat
               /\ \A k \in DOMAIN store[id] : store[id][k].version < store'[id][i].version
        <3>1. CASE j \in DOMAIN store[id] /\ store'[id][j] = store[id][j]
            BY <2>1, <2>3, <3>1
        <3>2. CASE j = Len(store[id]) + 1
            BY <2>3, <3>2
        <3> QED
            BY <3>1, <3>2, EntriesAdded
    <2> QED
        BY <2>2, <2>3, EntriesAdded
<1>2. PICK new : /\ new = saves'[Len(saves) + 1] /\ new.id = IdentityOf(q) /\ new.run = r
    BY <1>0
<1>3. SavesAreOwn'
    <2>1. OwnSave(new)
        <3>1. /\ q.owner \in {OwnerOf[r], Unset} /\ q.session \in {SessionOf[r], Unset}
              /\ q.owner # Unset /\ q.session # Unset /\ q.file \notin BadFiles
            BY DEF Requests, SaveValid, Given, FileNameOK
        <3>2. /\ new.id.owner = q.owner /\ new.id.file = q.file
              /\ new.id.session = IF q.file \in UserFiles THEN UserScoped ELSE q.session
            BY <1>2 DEF IdentityOf
        <3> QED
            BY <1>2, <3>1, <3>2 DEF OwnSave
    <2>2. ASSUME NEW n \in DOMAIN saves' PROVE OwnSave(saves'[n])
        <3>1. CASE n \in DOMAIN saves
            <4>1. saves'[n] = saves[n] /\ OwnSave(saves[n])
                BY <1>0, <3>1 DEF FindInv, SavesAreOwn
            <4> QED
                BY <4>1
        <3>2. CASE n \notin DOMAIN saves
            <4>1. n = Len(saves) + 1
                BY <1>0, <2>2, <3>2
            <4> QED
                BY <1>2, <2>1, <4>1
        <3> QED
            BY <3>1, <3>2
    <2> QED
        BY <2>2 DEF SavesAreOwn, OwnSave
<1>4. KeysWereSaved'
    <2>1. keys' = keys \cup {IdentityOf(q)}
        BY DEF Stores
    <2>2. Len(saves) + 1 \in DOMAIN saves' /\ DOMAIN saves \subseteq DOMAIN saves'
          /\ \A n \in DOMAIN saves : saves'[n] = saves[n]
        BY <1>0
    <2>3. \A id \in keys : \E n \in DOMAIN saves : saves[n].id = id
        BY DEF FindInv, KeysWereSaved
    <2>4. \A id \in keys : \E n \in DOMAIN saves' : saves'[n].id = id
        BY <2>2, <2>3
    <2>5. \E n \in DOMAIN saves' : saves'[n].id = IdentityOf(q)
        BY <1>2, <2>2
    <2> QED
        BY <2>1, <2>4, <2>5 DEF KeysWereSaved
<1> QED
    BY <1>1, <1>3, <1>4 DEF FindInv

\* A Delete leaves the saves listed, and entries as they were.
LEMMA DeleteLeaves ==
    ASSUME ArtifactAssumption, ArtifactInv, NEW r \in Runs, NEW q \in Requests(r),
           NEW v \in 0..MaxSaves, Delete(q, v)
    PROVE  /\ DOMAIN saves' = DOMAIN saves /\ keys' \subseteq keys
           /\ \A n \in DOMAIN saves :
                 /\ saves'[n].id = saves[n].id /\ saves'[n].version = saves[n].version
                 /\ saves'[n].run = saves[n].run /\ saves'[n].event = saves[n].event
                 /\ saves'[n].call = saves[n].call
           /\ \A id \in Identity : \A i \in DOMAIN store'[id] :
                 \E j \in DOMAIN store[id] : store'[id][i] = store[id][j]
<1>1. saves \in Seq(SaveOf) /\ store \in [Identity -> Seq(Entry)]
      /\ \A k \in Identity : Increasing(store[k])
    BY Zenon DEF ArtifactInv, ArtifactTypeOK, VersionsIncrease, Increasing
<1>2. PICK k : /\ k = IdentityOf(q) /\ keys' \subseteq keys
               /\ store' = [store EXCEPT ![k] = IF v = 0 THEN <<>> ELSE Without(store[k], v)]
               /\ saves' = [n \in DOMAIN saves |->
                               IF Removes(n, k, v) THEN [saves[n] EXCEPT !.stored = FALSE]
                               ELSE saves[n]]
    BY DEF Delete
<1>3. ASSUME NEW n \in DOMAIN saves
      PROVE  /\ saves'[n].id = saves[n].id /\ saves'[n].version = saves[n].version
             /\ saves'[n].run = saves[n].run /\ saves'[n].event = saves[n].event
             /\ saves'[n].call = saves[n].call
    <2>1. PICK x \in SaveOf : x = saves[n]
        BY <1>1
    <2>2. saves'[n] = x \/ saves'[n] = [x EXCEPT !.stored = FALSE]
        BY <1>2, <2>1
    <2> QED
        BY <2>1, <2>2 DEF SaveOf
<1>4. ASSUME NEW id \in Identity, NEW i \in DOMAIN store'[id]
      PROVE  \E j \in DOMAIN store[id] : store'[id][i] = store[id][j]
    <2>1. CASE id # k
        BY <1>1, <1>2, <1>4, <2>1
    <2>2. CASE id = k /\ v = 0
        <3>1. store'[k] = <<>>
            BY <1>1, <1>2, <2>2
        <3> QED
            BY <1>4, <2>2, <3>1
    <2>3. CASE id = k /\ v # 0
        <3>1. store'[k] = Without(store[k], v) /\ store[k] \in Seq(Entry) /\ Increasing(store[k])
            BY <1>1, <1>2, <2>3
        <3>2. \A x \in DOMAIN Without(store[k], v) :
                 \E j \in DOMAIN store[k] : Without(store[k], v)[x] = store[k][j]
            BY <3>1, WithoutKeeps
        <3> QED
            BY <1>4, <2>3, <3>1, <3>2
    <2> QED
        BY <2>1, <2>2, <2>3
<1> QED
    BY <1>2, <1>3, <1>4

LEMMA DeleteFinds ==
    ASSUME ArtifactAssumption, ArtifactInv, FindInv, NEW r \in Runs, NEW q \in Requests(r),
           NEW v \in 0..MaxSaves, Delete(q, v)
    PROVE  FindInv'
<1>1. LaterIsNewer'
    BY DeleteLeaves DEF FindInv, LaterIsNewer
<1>2. SavesAreOwn'
    BY DeleteLeaves DEF FindInv, SavesAreOwn, OwnSave
<1>3. KeysWereSaved'
    BY DeleteLeaves DEF FindInv, KeysWereSaved
<1> QED
    BY <1>1, <1>2, <1>3 DEF FindInv

LEMMA FindInit == Init => FindInv
<1> SUFFICES ASSUME Init PROVE FindInv
    OBVIOUS
<1>1. /\ \A id \in Identity : DOMAIN store[id] = {}
      /\ DOMAIN saves = {} /\ keys = {}
    BY DEF Init
<1> QED
    BY <1>1 DEF FindInv, LaterIsNewer, SavesAreOwn, KeysWereSaved

LEMMA FindKept == FindInv /\ UNCHANGED <<store, keys, saves>> => FindInv'
BY DEF FindInv, LaterIsNewer, SavesAreOwn, OwnSave, KeysWereSaved

LEMMA FindStep ==
    ASSUME ArtifactAssumption, ArtifactInv, FindInv, [Next]_vars
    PROVE  FindInv'
<1>1. CASE UNCHANGED vars
    BY <1>1, FindKept DEF vars
<1>2. ASSUME NEW r \in Runs, Start(r) \/ Merge(r) PROVE FindInv'
    BY <1>2, FindKept DEF Start, Merge
<1>3. ASSUME NEW r \in Runs, NEW c \in DOMAIN calls[r], Record(r, c) PROVE FindInv'
    BY <1>3, FindKept DEF Record
<1>4. ASSUME NEW r \in Runs, NEW c \in DOMAIN calls[r], NEW q \in Requests(r),
             CallSaves(r, c, q)
      PROVE  FindInv'
    <2>1. c \in Nat /\ SaveValid(q) /\ Stores(r, c, q)
        BY <1>4 DEF CallSaves, ArtifactInv, ArtifactTypeOK
    <2> QED
        BY <2>1, StoresFind
<1>5. ASSUME NEW r \in Runs, NEW q \in Requests(r), PlainSave(r, q) PROVE FindInv'
    <2>1. SaveValid(q) /\ Stores(r, 0, q)
        BY <1>5 DEF PlainSave
    <2> QED
        BY <2>1, StoresFind
<1>6. ASSUME NEW r \in Runs, NEW q \in Requests(r), NEW v \in 0..MaxSaves, Delete(q, v)
      PROVE  FindInv'
    BY <1>6, DeleteFinds
<1> QED
    BY <1>1, <1>2, <1>3, <1>4, <1>5, <1>6 DEF Next

LEMMA FindAlways == Spec => [](ArtifactInv /\ FindInv)
<1>1. ArtifactInv /\ [Next]_vars => ArtifactInv'
    BY ArtifactAssumption, InvStep
<1>2. ArtifactInv /\ FindInv /\ [Next]_vars => FindInv'
    BY ArtifactAssumption, FindStep
<1>3. Init => ArtifactInv
    BY InvInit
<1> QED
    BY <1>1, <1>2, <1>3, FindInit, PTL DEF Spec

\* The last entry of a file is its newest save.
LEMMA LastEntry ==
    ASSUME ArtifactInv, FindInv, NEW id \in Identity, store[id] # <<>>
    PROVE  LET last == Last(store[id]).save IN
           /\ last \in DOMAIN saves /\ saves[last].id = id /\ saves[last].stored
           /\ \A n \in DOMAIN saves : saves[n].id = id /\ saves[n].stored => n <= last
<1>1. PICK k : k = Len(store[id]) /\ k \in DOMAIN store[id] /\ \A i \in DOMAIN store[id] : i <= k
    <2>1. store[id] \in Seq(Entry)
        BY DEF ArtifactInv, ArtifactTypeOK
    <2> QED
        BY <2>1
<1>2. PICK last : last = store[id][k].save
    OBVIOUS
<1>3. last \in DOMAIN saves /\ saves[last].id = id /\ saves[last].stored
    BY <1>1, <1>2, Zenon DEF ArtifactInv, EntriesAreSaves
<1>4. ASSUME NEW n \in DOMAIN saves, saves[n].id = id, saves[n].stored PROVE n <= last
    <2>1. PICK i \in DOMAIN store[id] : store[id][i].save = n
        <3>1. PICK i \in DOMAIN store[id] :
                 store[id][i] = [version |-> saves[n].version, save |-> n]
            BY <1>4, Zenon DEF ArtifactInv, SavesHaveEntries
        <3> QED
            BY <3>1
    <2>2. n \in Nat /\ last \in Nat
        <3>1. saves \in Seq(SaveOf)
            BY DEF ArtifactInv, ArtifactTypeOK
        <3> QED
            BY <1>3, <1>4, <3>1
    <2>3. CASE i = k
        BY <1>2, <2>1, <2>2, <2>3
    <2>4. CASE i # k
        <3>1. store[id] \in Seq(Entry)
            BY DEF ArtifactInv, ArtifactTypeOK
        <3>2. i < k
            BY <1>1, <2>1, <2>4, <3>1
        <3>3. store[id][i].version < store[id][k].version
            BY <1>1, <2>1, <3>2 DEF ArtifactInv, VersionsIncrease
        <3>4. n < last
            BY <1>1, <1>2, <2>1, <3>3 DEF FindInv, LaterIsNewer
        <3> QED
            BY <2>2, <3>4
    <2> QED
        BY <2>3, <2>4
<1> QED
    BY <1>1, <1>2, <1>3, <1>4 DEF Last

\* A key is the identity that its readers' requests resolve to.
LEMMA ReadersResolve ==
    ASSUME ArtifactAssumption, ArtifactInv, FindInv, NEW id \in keys, NEW s \in Readers(id)
    PROVE  /\ id \in Identity /\ LoadValid(RequestFor(id, s))
           /\ IdentityOf(RequestFor(id, s)) = id
<1>1. id \in Identity /\ id.file \notin BadFiles
    BY DEF ArtifactInv, ArtifactTypeOK
<1>2. PICK o, t, f : /\ id = [owner |-> o, session |-> t, file |-> f]
                     /\ o \in Owners /\ t \in Sessions \cup {UserScoped} /\ f \in Files
    BY <1>1 DEF Identity
<1>3. s \in Sessions /\ (s = t \/ (t = UserScoped /\ f \in UserFiles))
    BY <1>2 DEF Readers
<1>4. f \in UserFiles => t = UserScoped
    BY <1>2 DEF FindInv, KeysWereSaved, SavesAreOwn, OwnSave
<1>5. RequestFor(id, s) = [owner |-> o, session |-> s, file |-> f, part |-> "nil"]
    BY <1>2 DEF RequestFor
<1>6. LoadValid(RequestFor(id, s))
    BY <1>1, <1>2, <1>3, <1>5 DEF LoadValid, Given, FileNameOK, ArtifactAssumption
<1>7. IdentityOf(RequestFor(id, s)) = id
    BY <1>2, <1>3, <1>4, <1>5 DEF IdentityOf
<1> QED
    BY <1>1, <1>6, <1>7

LEMMA NewestIsLoaded ==
    ASSUME ArtifactAssumption, ArtifactInv, FindInv PROVE LatestIsNewestSave
<1> SUFFICES ASSUME NEW id \in keys, NEW s \in Readers(id)
             PROVE  LET left == {n \in DOMAIN saves : saves[n].id = id /\ saves[n].stored}
                        newest == Load(RequestFor(id, s), 0)
                    IN IF left = {} THEN newest = 0
                       ELSE newest \in left /\ \A n \in left : n <= newest
    BY Zenon DEF LatestIsNewestSave
<1> DEFINE left == {n \in DOMAIN saves : saves[n].id = id /\ saves[n].stored}
           newest == Load(RequestFor(id, s), 0)
<1>1. id \in Identity
    BY ReadersResolve
<1>2. newest = Pick(store[id], 0).save
    BY ReadersResolve DEF Load
<1>3. CASE store[id] = <<>>
    <2>1. newest = 0
        BY <1>2, <1>3 DEF Pick, NotFound
    <2>2. DOMAIN store[id] = {}
        BY <1>3
    <2>3. left = {}
        BY <2>2 DEF ArtifactInv, SavesHaveEntries
    <2> QED
        BY <2>1, <2>3
<1>4. CASE store[id] # <<>>
    <2>1. newest = Last(store[id]).save
        BY <1>2, <1>4 DEF Pick
    <2>2. newest \in left /\ \A n \in left : n <= newest
        BY <1>1, <1>4, <2>1, LastEntry
    <2> QED
        BY <2>2
<1> QED
    BY <1>3, <1>4

\* What a request can load is a key of the map that a list of the session looks at.
LEMMA LoadedIsListed ==
    ASSUME ArtifactAssumption, ArtifactInv, FindInv PROVE LoadableIsListed
<1> SUFFICES ASSUME NEW o \in Owners, NEW s \in Sessions, NEW f \in Files,
                    Load([owner |-> o, session |-> s, file |-> f, part |-> "nil"], 0) # 0
             PROVE  f \in List([owner |-> o, session |-> s])
    BY Zenon DEF LoadableIsListed
<1>1. PICK q : q = [owner |-> o, session |-> s, file |-> f, part |-> "nil"]
    OBVIOUS
<1>2. PICK id : id = IdentityOf(q)
    OBVIOUS
<1>3. /\ id = [owner |-> o, session |-> IF f \in UserFiles THEN UserScoped ELSE s, file |-> f]
      /\ id \in Identity
    BY <1>1, <1>2 DEF IdentityOf, Identity
<1>4. Pick(store[id], 0).save # 0
    BY <1>1, <1>2 DEF Load
<1>5. store[id] # <<>>
    BY <1>4 DEF Pick, NotFound
<1>6. id \in keys
    BY <1>3, <1>5 DEF ArtifactInv, ArtifactTypeOK
<1>7. List([owner |-> o, session |-> s]) =
          {k.file : k \in {j \in keys : j.owner = o /\ j.session \in {s, UserScoped}}}
    BY DEF List, ListValid, Given, ArtifactAssumption
<1> QED
    BY <1>3, <1>6, <1>7

\* Every session loads the newest save of each file that is meant for it, and sees in the
\* list all it can load, whatever the runs save and delete meanwhile
\* (inmemory.go:35-49, 129-154).
THEOREM ReadersAlwaysFindTheFile == Spec => []ReadersFindTheFile
<1>1. ArtifactInv /\ FindInv => ReadersFindTheFile
    BY ArtifactAssumption, NewestIsLoaded, LoadedIsListed DEF ReadersFindTheFile
<1> QED
    BY <1>1, FindAlways, PTL

-----------------------------------------------------------------------------
(***************************************************************************)
(* Events record what was saved                                            *)
(***************************************************************************)

\* What is said of saves depends on who made them, of which file and in which order.
SameSaves ==
    /\ DOMAIN saves' = DOMAIN saves
    /\ \A n \in DOMAIN saves :
          /\ saves'[n].id = saves[n].id /\ saves'[n].version = saves[n].version
          /\ saves'[n].run = saves[n].run /\ saves'[n].event = saves[n].event
          /\ saves'[n].call = saves[n].call

LEMMA SavesBehindSame ==
    ASSUME SameSaves PROVE \A r, e, f : SavesBehind(r, e, f)' = SavesBehind(r, e, f)
BY DEF SameSaves, SavesBehind

LEMMA TellsSame ==
    ASSUME NEW S, NEW v, S \subseteq DOMAIN saves,
           \A n \in S : saves'[n].version = saves[n].version /\ saves'[n].call = saves[n].call
    PROVE  Tells(S, v)' <=> Tells(S, v)
BY DEF Tells, LastSave

\* The saves of a run's own step.
LEMMA SavesBehindSets ==
    \A r, e, f : /\ SavesBehind(r, e, f) \subseteq DOMAIN saves
                 /\ \A n \in SavesBehind(r, e, f) :
                       saves[n].run = r /\ saves[n].event = e /\ saves[n].call > 0
BY DEF SavesBehind

LEMMA RunsOfSaves == ASSUME ArtifactInv PROVE \A n \in DOMAIN saves : saves[n].run \in Runs
<1>1. \A x \in SaveOf : x.run \in Runs
    BY DEF SaveOf
<1> QED
    BY <1>1 DEF ArtifactInv, ArtifactTypeOK

LEMMA RecordSame ==
    ASSUME RecordInv, SameSaves, UNCHANGED <<calls, events>> PROVE RecordInv'
<1>1. \A r, e, f : SavesBehind(r, e, f)' = SavesBehind(r, e, f)
    BY SavesBehindSame
<1>2. \A n \in DOMAIN saves : saves'[n].version = saves[n].version /\ saves'[n].call = saves[n].call
    BY DEF SameSaves
<1>3. EventsTell'
    <2> SUFFICES ASSUME NEW r \in Runs, NEW e \in DOMAIN events[r], NEW f \in Files
                 PROVE  Tells(SavesBehind(r, e, f), events[r][e][f])'
        BY DEF EventsTell
    <2>1. PICK S, v : S = SavesBehind(r, e, f) /\ v = events[r][e][f]
        OBVIOUS
    <2>2. Tells(S, v) /\ S \subseteq DOMAIN saves
        BY <2>1, SavesBehindSets DEF RecordInv, EventsTell
    <2>3. Tells(S, v)'
        BY <1>2, <2>2, TellsSame
    <2> QED
        BY <1>1, <2>1, <2>3
<1>4. CallsTell'
    <2> SUFFICES ASSUME NEW r \in Runs, NEW c \in DOMAIN calls[r], NEW f \in Files
                 PROVE  Tells(SavesOf(r, c, f), Known(calls[r][c], f))'
        BY DEF CallsTell
    <2>1. PICK S, v, k : S = SavesOf(r, c, f) /\ k = calls[r][c] /\ v = Known(k, f)
        OBVIOUS
    <2>2. Tells(S, v) /\ S \subseteq DOMAIN saves
        BY <2>1, SavesBehindSets DEF RecordInv, CallsTell, SavesOf
    <2>3. Tells(S, v)'
        BY <1>2, <2>2, TellsSame
    <2>4. SavesOf(r, c, f)' = S
        BY <1>1, <1>2, <2>1, SavesBehindSets DEF SavesOf
    <2> QED
        BY <2>1, <2>3, <2>4
<1>5. SavesInBatches'
    BY DEF RecordInv, SavesInBatches, SameSaves
<1> QED
    BY <1>3, <1>4, <1>5 DEF RecordInv

\* A save is behind the next event of its run, if a call of a batch made it.
LEMMA SavesBehindMore ==
    ASSUME ArtifactAssumption, ArtifactInv, NEW r \in Runs, NEW q \in Requests(r), SaveValid(q),
           NEW c \in Nat, Stores(r, c, q)
    PROVE  LET new == Len(saves) + 1 IN
           /\ \A s, e, f :
                 SavesBehind(s, e, f)' =
                     IF s = r /\ e = Len(events[r]) + 1 /\ f = q.file /\ c > 0
                     THEN SavesBehind(s, e, f) \cup {new} ELSE SavesBehind(s, e, f)
           /\ saves'[new].version = NextVersion(store[IdentityOf(q)])
           /\ saves'[new].call = c /\ saves'[new].run = r
           /\ saves'[new].event = Len(events[r]) + 1
           /\ new \in Nat /\ \A n \in DOMAIN saves : n \in Nat /\ n < new /\ saves'[n] = saves[n]
           /\ DOMAIN saves' = DOMAIN saves \cup {new}
<1>1. PICK new, made : /\ new = Len(saves) + 1 /\ made = saves'[new]
    OBVIOUS
<1>2. /\ Len(saves) \in Nat /\ DOMAIN saves = 1..Len(saves)
      /\ DOMAIN saves' = 1..Len(saves) + 1
      /\ \A n \in DOMAIN saves : saves'[n] = saves[n]
      /\ made = [id |-> IdentityOf(q), version |-> NextVersion(store[IdentityOf(q)]),
                 stored |-> TRUE, run |-> r, event |-> Len(events[r]) + 1, call |-> c]
    BY <1>1, StoresAdds
<1>3. /\ made.id.file = q.file /\ made.run = r /\ made.event = Len(events[r]) + 1
      /\ made.call = c /\ made.version = NextVersion(store[IdentityOf(q)])
    BY <1>2 DEF IdentityOf
<1>4. /\ new \in Nat /\ \A n \in DOMAIN saves : n \in Nat /\ n < new /\ saves'[n] = saves[n]
      /\ DOMAIN saves' = DOMAIN saves \cup {new}
    BY <1>1, <1>2
<1>5. ASSUME NEW s, NEW e, NEW f
      PROVE  SavesBehind(s, e, f)' =
                 IF s = r /\ e = Len(events[r]) + 1 /\ f = q.file /\ c > 0
                 THEN SavesBehind(s, e, f) \cup {new} ELSE SavesBehind(s, e, f)
    <2>1. ASSUME NEW n
          PROVE  n \in SavesBehind(s, e, f)' <=>
                    \/ n \in SavesBehind(s, e, f)
                    \/ n = new /\ s = r /\ e = Len(events[r]) + 1 /\ f = q.file /\ c > 0
        <3>1. CASE n \in DOMAIN saves
            BY <1>4, <3>1 DEF SavesBehind
        <3>2. CASE n = new
            BY <1>1, <1>3, <1>4, <3>2 DEF SavesBehind
        <3>3. CASE n \notin DOMAIN saves /\ n # new
            BY <1>4, <3>3 DEF SavesBehind
        <3> QED
            BY <3>1, <3>2, <3>3
    <2> QED
        BY <2>1
<1> QED
    BY <1>1, <1>3, <1>4, <1>5

\* A save of one call comes after what it has saved already.
LEMMA TellsMore ==
    ASSUME NEW S, NEW new \in Nat, NEW c \in Nat, saves'[new].call = c,
           \A n \in S : n \in Nat /\ n < new /\ saves'[n].call = c,
           NEW v, v = saves'[new].version
    PROVE  Tells(S \cup {new}, v)'
<1>1. \A n \in S \cup {new} : saves'[n].call = saves'[new].call /\ n <= new
    OBVIOUS
<1>2. LastSave(S \cup {new}, new)'
    BY <1>1 DEF LastSave
<1> QED
    BY <1>2 DEF Tells

\* The steps that change neither what calls nor what events say of saves, but for new ones.
LEMMA EventsTellOn ==
    ASSUME ArtifactAssumption, ArtifactInv, RecordInv, NEW r \in Runs, NEW q \in Requests(r),
           SaveValid(q), NEW c \in Nat, Stores(r, c, q), events' = events
    PROVE  EventsTell'
<1> SUFFICES ASSUME NEW s \in Runs, NEW e \in DOMAIN events[s], NEW f \in Files
             PROVE  Tells(SavesBehind(s, e, f), events[s][e][f])'
    BY DEF EventsTell
<1>1. PICK S, v : S = SavesBehind(s, e, f) /\ v = events[s][e][f]
    OBVIOUS
<1>2. Tells(S, v) /\ S \subseteq DOMAIN saves
    BY <1>1, SavesBehindSets DEF RecordInv, EventsTell
<1>3. e # Len(events[s]) + 1
    BY DEF ArtifactInv, ArtifactTypeOK
<1>4. SavesBehind(s, e, f)' = S
    BY <1>1, <1>3, SavesBehindMore
<1>5. \A n \in S : saves'[n].version = saves[n].version /\ saves'[n].call = saves[n].call
    BY <1>2, SavesBehindMore
<1>6. Tells(S, v)'
    BY <1>2, <1>5, TellsSame
<1> QED
    BY <1>1, <1>4, <1>6

LEMMA PlainSaveRecords ==
    ASSUME ArtifactAssumption, ArtifactInv, RecordInv, NEW r \in Runs, NEW q \in Requests(r),
           PlainSave(r, q)
    PROVE  RecordInv'
<1>1. SaveValid(q) /\ Stores(r, 0, q) /\ UNCHANGED <<calls, events>>
    BY DEF PlainSave
<1>2. EventsTell'
    BY <1>1, EventsTellOn
<1>3. \A s, e, f : SavesBehind(s, e, f)' = SavesBehind(s, e, f)
    BY <1>1, SavesBehindMore
<1>4. \A n \in DOMAIN saves : saves'[n] = saves[n]
    BY <1>1, SavesBehindMore
<1>5. CallsTell'
    <2> SUFFICES ASSUME NEW s \in Runs, NEW d \in DOMAIN calls[s], NEW f \in Files
                 PROVE  Tells(SavesOf(s, d, f), Known(calls[s][d], f))'
        BY <1>1 DEF CallsTell
    <2>1. PICK S, v, k : S = SavesOf(s, d, f) /\ k = calls[s][d] /\ v = Known(k, f)
        OBVIOUS
    <2>2. Tells(S, v) /\ S \subseteq DOMAIN saves
        BY <2>1, SavesBehindSets DEF RecordInv, CallsTell, SavesOf
    <2>3. Tells(S, v)'
        BY <1>4, <2>2, TellsSame
    <2>4. SavesOf(s, d, f)' = S
        BY <1>1, <1>3, <1>4, <2>1, SavesBehindSets DEF SavesOf
    <2> QED
        BY <1>1, <2>1, <2>3, <2>4
<1>6. SavesInBatches'
    <2>1. /\ DOMAIN saves' = DOMAIN saves \cup {Len(saves) + 1}
          /\ saves'[Len(saves) + 1].call = 0
        BY <1>1, SavesBehindMore
    <2> QED
        BY <1>1, <1>4, <2>1 DEF RecordInv, SavesInBatches
<1> QED
    BY <1>2, <1>5, <1>6 DEF RecordInv

\* What a call has saved and not recorded counts as known to it.
LEMMA CallSaveRecords ==
    ASSUME ArtifactAssumption, ArtifactInv, RecordInv, NEW r \in Runs, NEW c \in DOMAIN calls[r],
           NEW q \in Requests(r), CallSaves(r, c, q)
    PROVE  RecordInv'
<1>0. calls \in [Runs -> Seq(Call)]
    BY DEF ArtifactInv, ArtifactTypeOK
<1>1. /\ SaveValid(q) /\ Stores(r, c, q) /\ events' = events /\ calls[r][c].saved = Nothing
      /\ c \in Nat /\ c > 0
    BY <1>0 DEF CallSaves
<1>2. EventsTell'
    BY <1>1, EventsTellOn
<1>3. PICK new, version :
         /\ new \in Nat /\ version = NextVersion(store[IdentityOf(q)])
         /\ \A s, e, f :
               SavesBehind(s, e, f)' =
                   IF s = r /\ e = Len(events[r]) + 1 /\ f = q.file
                   THEN SavesBehind(s, e, f) \cup {new} ELSE SavesBehind(s, e, f)
         /\ saves'[new].version = version
         /\ saves'[new].call = c /\ saves'[new].run = r
         /\ saves'[new].event = Len(events[r]) + 1
         /\ \A n \in DOMAIN saves : n \in Nat /\ n < new /\ saves'[n] = saves[n]
         /\ DOMAIN saves' = DOMAIN saves \cup {new}
    <2>1. PICK new, version : new = Len(saves) + 1 /\ version = NextVersion(store[IdentityOf(q)])
        OBVIOUS
    <2>2. /\ saves'[new].version = version
          /\ saves'[new].call = c /\ saves'[new].run = r
          /\ saves'[new].event = Len(events[r]) + 1
          /\ new \in Nat /\ \A n \in DOMAIN saves : n \in Nat /\ n < new /\ saves'[n] = saves[n]
          /\ DOMAIN saves' = DOMAIN saves \cup {new}
        <3>1. /\ saves'[Len(saves) + 1].version = NextVersion(store[IdentityOf(q)])
              /\ saves'[Len(saves) + 1].call = c /\ saves'[Len(saves) + 1].run = r
              /\ saves'[Len(saves) + 1].event = Len(events[r]) + 1
            BY <1>1, SavesBehindMore
        <3>2. /\ Len(saves) + 1 \in Nat
              /\ \A n \in DOMAIN saves : n \in Nat /\ n < Len(saves) + 1 /\ saves'[n] = saves[n]
              /\ DOMAIN saves' = DOMAIN saves \cup {Len(saves) + 1}
            BY <1>1, SavesBehindMore
        <3> QED
            BY <2>1, <3>1, <3>2
    <2>3. \A s, e, f :
             SavesBehind(s, e, f)' =
                 IF s = r /\ e = Len(events[r]) + 1 /\ f = q.file
                 THEN SavesBehind(s, e, f) \cup {new} ELSE SavesBehind(s, e, f)
        <3>1. \A s, e, f :
                 SavesBehind(s, e, f)' =
                     IF s = r /\ e = Len(events[r]) + 1 /\ f = q.file /\ c > 0
                     THEN SavesBehind(s, e, f) \cup {Len(saves) + 1} ELSE SavesBehind(s, e, f)
            BY <1>1, SavesBehindMore
        <3> QED
            BY <1>1, <2>1, <3>1
    <2> QED
        BY <2>1, <2>2, <2>3
<1>4. PICK mine : /\ mine = [file |-> q.file, version |-> version]
                  /\ calls' = [calls EXCEPT ![r][c].saved = mine]
    BY <1>3 DEF CallSaves
<1>5. /\ \A s \in Runs : DOMAIN calls'[s] = DOMAIN calls[s]
      /\ \A s \in Runs : \A d \in DOMAIN calls[s] :
            s # r \/ d # c => calls'[s][d] = calls[s][d]
      /\ calls'[r][c].saved = mine /\ calls'[r][c].delta = calls[r][c].delta
    <2>1. calls[r][c] \in Call
        BY <1>0
    <2>2. calls'[r][c] = [calls[r][c] EXCEPT !.saved = mine]
        BY <1>0, <1>4
    <2>3. calls'[r][c].saved = mine /\ calls'[r][c].delta = calls[r][c].delta
        BY <2>1, <2>2 DEF Call
    <2> QED
        BY <1>0, <1>4, <2>3
<1>6. CallsTell'
    <2> SUFFICES ASSUME NEW s \in Runs, NEW d \in DOMAIN calls[s], NEW f \in Files
                 PROVE  Tells(SavesOf(s, d, f), Known(calls[s][d], f))'
        BY <1>5 DEF CallsTell
    <2>1. PICK S, v, k : S = SavesOf(s, d, f) /\ k = calls[s][d] /\ v = Known(k, f)
        OBVIOUS
    <2>2. Tells(S, v) /\ S \subseteq DOMAIN saves /\ \A n \in S : saves[n].call = d
        BY <2>1, SavesBehindSets DEF RecordInv, CallsTell, SavesOf
    <2>3. CASE s = r /\ d = c /\ f = q.file
        <3>1. SavesOf(s, d, f)' = S \cup {new}
            BY <1>1, <1>3, <2>1, <2>3, SavesBehindSets DEF SavesOf
        <3>2. Known(calls'[s][d], f) = version
            BY <1>4, <1>5, <2>3 DEF Known
        <3>3. \A n \in S : n \in Nat /\ n < new /\ saves'[n].call = c
            BY <1>3, <2>2, <2>3
        <3>4. Tells(S \cup {new}, version)'
            BY <1>1, <1>3, <3>3, TellsMore
        <3> QED
            BY <3>1, <3>2, <3>4 DEF Known
    <2>4. CASE ~(s = r /\ d = c /\ f = q.file)
        <3>1. SavesOf(s, d, f)' = S
            BY <1>1, <1>3, <2>1, <2>4, SavesBehindSets DEF SavesOf
        <3>2. Known(calls'[s][d], f) = v
            <4>1. CASE s # r \/ d # c
                BY <1>5, <2>1, <4>1
            <4>2. CASE s = r /\ d = c /\ f # q.file
                <5>1. f # Unset
                    BY DEF ArtifactAssumption
                <5> QED
                    BY <1>1, <1>4, <1>5, <2>1, <4>2, <5>1 DEF Known, Nothing
            <4> QED
                BY <2>4, <4>1, <4>2
        <3>3. Tells(S, v)'
            BY <1>3, <2>2, TellsSame
        <3> QED
            BY <3>1, <3>2, <3>3 DEF Known
    <2> QED
        BY <2>3, <2>4
<1>7. SavesInBatches'
    <2>1. \A n \in DOMAIN saves :
             saves'[n] = saves[n] /\ DOMAIN calls'[saves[n].run] = DOMAIN calls[saves[n].run]
        BY <1>3, <1>5, RunsOfSaves
    <2>2. \A n \in DOMAIN saves' : n \in DOMAIN saves \/ n = new
        BY <1>3
    <2>3. DOMAIN calls'[r] = DOMAIN calls[r]
        BY <1>5
    <2> QED
        BY <1>1, <1>3, <2>1, <2>2, <2>3 DEF RecordInv, SavesInBatches
<1> QED
    BY <1>2, <1>6, <1>7 DEF RecordInv

\* Recording changes nothing in that.
LEMMA RecordRecords ==
    ASSUME ArtifactAssumption, ArtifactInv, RecordInv, NEW r \in Runs, NEW c \in DOMAIN calls[r],
           Record(r, c)
    PROVE  RecordInv'
<1>0. calls \in [Runs -> Seq(Call)]
    BY DEF ArtifactInv, ArtifactTypeOK
<1>1. UNCHANGED <<events, saves>> /\ calls[r][c].saved # Nothing
    BY DEF Record
<1>2. PICK k : k = calls[r][c] /\ k \in Call /\ k.delta \in Delta
              /\ k.saved \in [file: Files, version: Nat \ {0}]
    BY <1>0, <1>1, CallTypes
<1>3. /\ \A s \in Runs : DOMAIN calls'[s] = DOMAIN calls[s]
      /\ \A s \in Runs : \A d \in DOMAIN calls[s] :
            s # r \/ d # c => calls'[s][d] = calls[s][d]
      /\ calls'[r][c] = [k EXCEPT !.delta[k.saved.file] = k.saved.version, !.saved = Nothing]
    BY <1>0, <1>2 DEF Record
<1>4. \A f \in Files : Known(calls'[r][c], f) = Known(k, f)
    <2> TAKE f \in Files
    <2>1. calls'[r][c].saved = Nothing
          /\ calls'[r][c].delta = [k.delta EXCEPT ![k.saved.file] = k.saved.version]
        BY <1>2, <1>3 DEF Call
    <2>2. f # Unset
        BY DEF ArtifactAssumption
    <2> QED
        BY <1>2, <2>1, <2>2 DEF Known, Nothing, Delta
<1>5. \A s \in Runs : \A d \in DOMAIN calls[s] : \A f \in Files :
         Known(calls'[s][d], f) = Known(calls[s][d], f)
    BY <1>2, <1>3, <1>4
<1>6. CallsTell'
    <2> SUFFICES ASSUME NEW s \in Runs, NEW d \in DOMAIN calls[s], NEW f \in Files
                 PROVE  Tells(SavesOf(s, d, f), Known(calls[s][d], f))'
        BY <1>3 DEF CallsTell
    <2>1. Tells(SavesOf(s, d, f), Known(calls[s][d], f))
        BY DEF RecordInv, CallsTell
    <2>2. Known(calls[s][d], f)' = Known(calls[s][d], f)
        BY <1>5
    <2> QED
        BY <1>1, <2>1, <2>2 DEF Tells, LastSave, SavesOf, SavesBehind
<1>7. EventsTell'
    BY <1>1 DEF RecordInv, EventsTell, Tells, LastSave, SavesBehind
<1>8. SavesInBatches'
    BY <1>1, <1>3, RunsOfSaves DEF RecordInv, SavesInBatches
<1> QED
    BY <1>6, <1>7, <1>8 DEF RecordInv

\* A batch begins with nothing saved.
LEMMA StartRecords ==
    ASSUME ArtifactAssumption, ArtifactInv, RecordInv, NEW r \in Runs, Start(r)
    PROVE  RecordInv'
<1>0. calls \in [Runs -> Seq(Call)] /\ events \in [Runs -> Seq(Delta)]
    BY DEF ArtifactInv, ArtifactTypeOK
<1>1. /\ UNCHANGED <<events, saves>> /\ calls[r] = <<>>
      /\ calls' = [calls EXCEPT ![r] = [c \in 1..MaxCalls |-> NewCall]]
    BY DEF Start
<1>2. /\ \A s \in Runs : s # r => calls'[s] = calls[s]
      /\ DOMAIN calls'[r] = 1..MaxCalls /\ \A c \in 1..MaxCalls : calls'[r][c] = NewCall
    BY <1>0, <1>1
<1>3. \A c, f : SavesOf(r, c, f) = {}
    <2>1. DOMAIN calls[r] = {} /\ Len(events[r]) + 1 \notin DOMAIN events[r]
        BY <1>0, <1>1
    <2>2. \A n \in DOMAIN saves :
             ~(saves[n].call > 0 /\ saves[n].run = r /\ saves[n].event = Len(events[r]) + 1)
        BY <2>1 DEF RecordInv, SavesInBatches
    <2> QED
        BY <2>2 DEF SavesOf, SavesBehind
<1>4. CallsTell'
    <2> SUFFICES ASSUME NEW s \in Runs, NEW d \in DOMAIN calls'[s], NEW f \in Files
                 PROVE  Tells(SavesOf(s, d, f), Known(calls[s][d], f))'
        BY DEF CallsTell
    <2>1. CASE s = r
        <3>1. calls'[s][d] = NewCall
            BY <1>2, <2>1
        <3>2. Known(NewCall, f) = 0
            BY DEF Known, NewCall, NoDelta, Nothing, ArtifactAssumption
        <3>3. SavesOf(s, d, f)' = {}
            BY <1>1, <1>3, <2>1 DEF SavesOf, SavesBehind
        <3> QED
            BY <3>1, <3>2, <3>3 DEF Tells, Known
    <2>2. CASE s # r
        <3>1. Tells(SavesOf(s, d, f), Known(calls[s][d], f)) /\ calls'[s] = calls[s]
            BY <1>2, <2>2 DEF RecordInv, CallsTell
        <3> QED
            BY <1>1, <3>1 DEF Tells, LastSave, SavesOf, SavesBehind, Known
    <2> QED
        BY <2>1, <2>2
<1>5. EventsTell'
    BY <1>1 DEF RecordInv, EventsTell, Tells, LastSave, SavesBehind
<1>6. SavesInBatches'
    <2>1. \A s \in Runs : DOMAIN calls[s] \subseteq DOMAIN calls'[s]
        <3>1. DOMAIN calls[r] = {}
            BY <1>1
        <3> QED
            BY <1>2, <3>1
    <2> QED
        BY <1>1, <2>1, RunsOfSaves DEF RecordInv, SavesInBatches
<1> QED
    BY <1>4, <1>5, <1>6 DEF RecordInv

\* The merged delta of a batch has of each file what its last call that saved it recorded.
LEMMA MergedTells ==
    ASSUME ArtifactAssumption, ArtifactInv, RecordInv, NEW r \in Runs, NEW f \in Files,
           \A c \in DOMAIN calls[r] : calls[r][c].saved = Nothing
    PROVE  Tells(SavesBehind(r, Len(events[r]) + 1, f), MergedDelta(r)[f])
<1> DEFINE last == CHOOSE c \in Recorders(r, f) : \A d \in Recorders(r, f) : d <= c
<1>0. /\ calls[r] \in Seq(Call) /\ events[r] \in Seq(Delta) /\ saves \in Seq(SaveOf)
      /\ f # Unset
    BY DEF ArtifactInv, ArtifactTypeOK, ArtifactAssumption
<1>1. PICK S : S = SavesBehind(r, Len(events[r]) + 1, f)
    OBVIOUS
<1>2. MergedDelta(r)[f] = IF Recorders(r, f) = {} THEN 0 ELSE calls[r][last].delta[f]
    BY Zenon DEF MergedDelta
<1>3. \A c \in DOMAIN calls[r] : Tells(SavesOf(r, c, f), calls[r][c].delta[f])
    <2> TAKE c \in DOMAIN calls[r]
    <2>1. Known(calls[r][c], f) = calls[r][c].delta[f]
        BY <1>0 DEF Known, Nothing
    <2>2. Tells(SavesOf(r, c, f), Known(calls[r][c], f))
        BY DEF RecordInv, CallsTell
    <2> QED
        BY <2>1, <2>2
<1>4. \A n \in S : n \in DOMAIN saves /\ n \in Nat /\ saves[n].call \in DOMAIN calls[r]
    <2> TAKE n \in S
    <2>1. /\ n \in DOMAIN saves /\ saves[n].run = r /\ saves[n].event = Len(events[r]) + 1
          /\ saves[n].call > 0
        BY <1>1, SavesBehindSets
    <2>2. Len(events[r]) + 1 \notin DOMAIN events[r]
        BY <1>0
    <2>3. saves[n].call \in DOMAIN calls[r]
        BY <2>1, <2>2 DEF RecordInv, SavesInBatches
    <2> QED
        BY <1>0, <2>1, <2>3
<1>5. \A n \in S : saves[n].call \in Recorders(r, f) /\ n \in SavesOf(r, saves[n].call, f)
    <2> TAKE n \in S
    <2>1. PICK c : c = saves[n].call /\ c \in DOMAIN calls[r]
        BY <1>4
    <2>2. n \in SavesOf(r, c, f)
        BY <1>1, <2>1 DEF SavesOf
    <2>3. PICK m \in SavesOf(r, c, f) : calls[r][c].delta[f] = saves[m].version
        BY <1>3, <2>1, <2>2 DEF Tells
    <2>4. m \in DOMAIN saves
        BY <2>3, SavesBehindSets DEF SavesOf
    <2>5. saves[m].version # 0
        <3>1. \A x \in SaveOf : x.version # 0
            BY DEF SaveOf
        <3> QED
            BY <1>0, <2>4, <3>1
    <2> QED
        BY <2>1, <2>2, <2>3, <2>5 DEF Recorders
<1>6. CASE Recorders(r, f) = {}
    <2>1. S = {}
        BY <1>5, <1>6
    <2> QED
        BY <1>1, <1>2, <1>6, <2>1 DEF Tells
<1>7. CASE Recorders(r, f) # {}
    <2>1. Recorders(r, f) \in SUBSET (1..Len(calls[r])) /\ Len(calls[r]) \in Nat
        BY <1>0 DEF Recorders
    <2>2. last \in Recorders(r, f) /\ \A d \in Recorders(r, f) : d <= last
        BY <1>7, <2>1, LastExists, Zenon
    <2> HIDE DEF last
    <2>3. last \in DOMAIN calls[r] /\ calls[r][last].delta[f] # 0 /\ last \in Nat
        BY <2>1, <2>2 DEF Recorders
    <2>4. PICK n \in SavesOf(r, last, f) :
             LastSave(SavesOf(r, last, f), n) /\ calls[r][last].delta[f] = saves[n].version
        BY <1>3, <2>3 DEF Tells
    <2>5. n \in S /\ saves[n].call = last
        BY <1>1, <2>4 DEF SavesOf
    <2>6. ASSUME NEW m \in S
          PROVE  \/ saves[m].call < saves[n].call
                 \/ saves[m].call = saves[n].call /\ m <= n
        <3>1. saves[m].call \in Recorders(r, f) /\ m \in SavesOf(r, saves[m].call, f)
            BY <1>5, <2>6
        <3>2. saves[m].call <= last /\ saves[m].call \in Nat
            BY <2>1, <2>2, <3>1
        <3>3. CASE saves[m].call = last
            BY <2>4, <2>5, <3>1, <3>3 DEF LastSave
        <3>4. CASE saves[m].call # last
            BY <2>3, <2>5, <3>2, <3>4
        <3> QED
            BY <3>3, <3>4
    <2>7. LastSave(S, n)
        BY <2>5, <2>6 DEF LastSave
    <2> QED
        BY <1>1, <1>2, <1>7, <2>4, <2>5, <2>7 DEF Tells
<1> QED
    BY <1>6, <1>7

LEMMA MergeRecords ==
    ASSUME ArtifactAssumption, ArtifactInv, RecordInv, NEW r \in Runs, Merge(r)
    PROVE  RecordInv'
<1>0. calls \in [Runs -> Seq(Call)] /\ events \in [Runs -> Seq(Delta)]
    BY DEF ArtifactInv, ArtifactTypeOK
<1>1. /\ UNCHANGED saves
      /\ \A c \in DOMAIN calls[r] : calls[r][c].saved = Nothing
      /\ calls' = [calls EXCEPT ![r] = <<>>]
    BY DEF Merge
<1>2. PICK merged : merged = MergedDelta(r) /\ events' = [events EXCEPT ![r] = Append(@, merged)]
    BY DEF Merge
<1>3. merged \in Delta
    BY <1>2, MergedDeltaType DEF ArtifactInv
<1>4. PICK e : e = Len(events[r]) + 1
    OBVIOUS
<1>5. /\ DOMAIN events'[r] = DOMAIN events[r] \cup {e} /\ events'[r][e] = merged
      /\ \A d \in DOMAIN events[r] : events'[r][d] = events[r][d]
      /\ \A s \in Runs : s # r => events'[s] = events[s] /\ calls'[s] = calls[s]
      /\ DOMAIN calls'[r] = {}
    <2>1. events'[r] = Append(events[r], merged) /\ events[r] \in Seq(Delta)
        BY <1>0, <1>2
    <2>2. /\ Len(events[r]) \in Nat /\ DOMAIN events[r] = 1..Len(events[r])
          /\ DOMAIN events'[r] = 1..Len(events[r]) + 1 /\ events'[r][e] = merged
          /\ \A d \in DOMAIN events[r] : events'[r][d] = events[r][d]
        BY <1>3, <1>4, <2>1
    <2>3. calls'[r] = <<>>
        BY <1>0, <1>1
    <2> QED
        BY <1>0, <1>1, <1>2, <1>4, <2>2, <2>3
<1>6. EventsTell'
    <2> SUFFICES ASSUME NEW s \in Runs, NEW d \in DOMAIN events'[s], NEW f \in Files
                 PROVE  Tells(SavesBehind(s, d, f), events[s][d][f])'
        BY DEF EventsTell
    <2>1. CASE s = r /\ d = e
        <3>1. Tells(SavesBehind(r, e, f), merged[f])
            BY <1>1, <1>2, <1>4, MergedTells
        <3> QED
            BY <1>1, <1>5, <2>1, <3>1 DEF Tells, LastSave, SavesBehind
    <2>2. CASE ~(s = r /\ d = e)
        <3>1. d \in DOMAIN events[s] /\ events'[s][d] = events[s][d]
            BY <1>5, <2>2
        <3>2. Tells(SavesBehind(s, d, f), events[s][d][f])
            BY <3>1 DEF RecordInv, EventsTell
        <3> QED
            BY <1>1, <3>1, <3>2 DEF Tells, LastSave, SavesBehind
    <2> QED
        BY <2>1, <2>2
<1>7. CallsTell'
    <2> SUFFICES ASSUME NEW s \in Runs, NEW d \in DOMAIN calls'[s], NEW f \in Files
                 PROVE  Tells(SavesOf(s, d, f), Known(calls[s][d], f))'
        BY DEF CallsTell
    <2>1. s # r /\ calls'[s] = calls[s] /\ events'[s] = events[s]
        BY <1>5
    <2>2. Tells(SavesOf(s, d, f), Known(calls[s][d], f))
        BY <2>1 DEF RecordInv, CallsTell
    <2> QED
        BY <1>1, <2>1, <2>2 DEF Tells, LastSave, SavesOf, SavesBehind, Known
<1>8. SavesInBatches'
    <2> SUFFICES ASSUME NEW n \in DOMAIN saves, saves[n].call > 0, NEW s, s = saves[n].run
                 PROVE  \/ saves[n].event \in DOMAIN events'[s]
                        \/ saves[n].event = Len(events'[s]) + 1 /\ saves[n].call \in DOMAIN calls'[s]
        BY <1>1 DEF SavesInBatches
    <2>1. /\ s \in Runs
          /\ \/ saves[n].event \in DOMAIN events[s]
             \/ saves[n].event = Len(events[s]) + 1 /\ saves[n].call \in DOMAIN calls[s]
        BY RunsOfSaves DEF RecordInv, SavesInBatches
    <2> QED
        BY <1>4, <1>5, <2>1
<1> QED
    BY <1>6, <1>7, <1>8 DEF RecordInv

LEMMA RecordInit == Init => RecordInv
<1> SUFFICES ASSUME Init PROVE RecordInv
    OBVIOUS
<1>1. \A r \in Runs : DOMAIN calls[r] = {} /\ DOMAIN events[r] = {}
    BY DEF Init
<1>2. DOMAIN saves = {}
    BY DEF Init
<1> QED
    BY <1>1, <1>2 DEF RecordInv, EventsTell, CallsTell, SavesInBatches

LEMMA RecordStep ==
    ASSUME ArtifactAssumption, ArtifactInv, RecordInv, [Next]_vars
    PROVE  RecordInv'
<1>1. CASE UNCHANGED vars
    BY <1>1, RecordSame DEF vars, SameSaves
<1>2. ASSUME NEW r \in Runs, NEW q \in Requests(r), NEW v \in 0..MaxSaves, Delete(q, v)
      PROVE  RecordInv'
    <2>1. SameSaves
        BY <1>2, DeleteLeaves DEF SameSaves
    <2> QED
        BY <1>2, <2>1, RecordSame DEF Delete
<1> QED
    BY <1>1, <1>2, StartRecords, CallSaveRecords, RecordRecords, PlainSaveRecords, MergeRecords
       DEF Next

\* A stored version is loaded by its number.
LEMMA VersionLoads ==
    ASSUME ArtifactInv, NEW id \in Identity, NEW n \in DOMAIN saves,
           saves[n].id = id, saves[n].stored
    PROVE  Pick(store[id], saves[n].version).save = n
<1>1. PICK i \in DOMAIN store[id] : store[id][i] = [version |-> saves[n].version, save |-> n]
    BY Zenon DEF ArtifactInv, SavesHaveEntries
<1>2. PICK v : v = saves[n].version /\ v # 0 /\ store[id][i].version = v
    BY <1>1, EntryNumbers
<1>3. store[id] # <<>>
    BY <1>1
<1> DEFINE at == {j \in DOMAIN store[id] : store[id][j].version = v}
<1>4. at = {i}
    <2>1. ASSUME NEW j \in at PROVE j = i
        <3>1. j \in DOMAIN store[id] /\ store[id][j].version = v
            BY <2>1
        <3>2. v \in Nat /\ i \in Nat /\ j \in Nat
            <4>1. store[id] \in Seq(Entry)
                BY DEF ArtifactInv, ArtifactTypeOK
            <4>2. v \in Nat
                BY <1>2, EntryNumbers
            <4> QED
                BY <3>1, <4>1, <4>2
        <3>3. ~(j < i) /\ ~(i < j)
            BY <1>2, <3>1, <3>2 DEF ArtifactInv, VersionsIncrease
        <3> QED
            BY <3>2, <3>3
    <2> QED
        BY <1>2, <2>1
<1>5. i \in Nat
    <2>1. store[id] \in Seq(Entry)
        BY DEF ArtifactInv, ArtifactTypeOK
    <2> QED
        BY <2>1
<1>6. (CHOOSE j \in at : \A k \in at : j <= k) = i
    <2> HIDE DEF at
    <2> QED
        BY <1>4, <1>5
<1>7. Pick(store[id], v) = store[id][i]
    <2>1. Pick(store[id], v) = store[id][CHOOSE j \in at : \A k \in at : j <= k]
        BY <1>2, <1>3, <1>4 DEF Pick
    <2> QED
        BY <1>6, <2>1
<1> QED
    BY <1>1, <1>2, <1>7

LEMMA RecordedLoads ==
    ASSUME ArtifactAssumption, ArtifactInv, FindInv, RecordInv PROVE RecordedVersionLoads
<1> SUFFICES ASSUME NEW r \in Runs, NEW e \in DOMAIN events[r], NEW f \in Files
             PROVE  LET mine == SavesBehind(r, e, f)
                        last == CHOOSE n \in mine :
                            \A m \in mine : \/ saves[m].call < saves[n].call
                                            \/ saves[m].call = saves[n].call /\ m <= n
                        q == [owner |-> OwnerOf[r], session |-> SessionOf[r], file |-> f,
                              part |-> "nil"]
                    IN IF mine = {} THEN events[r][e][f] = 0
                       ELSE /\ events[r][e][f] = saves[last].version
                            /\ saves[last].stored => Load(q, events[r][e][f]) = last
    BY Zenon DEF RecordedVersionLoads
<1> DEFINE mine == SavesBehind(r, e, f)
           last == CHOOSE n \in mine :
                       \A m \in mine : \/ saves[m].call < saves[n].call
                                       \/ saves[m].call = saves[n].call /\ m <= n
           q == [owner |-> OwnerOf[r], session |-> SessionOf[r], file |-> f, part |-> "nil"]
<1>1. Tells(mine, events[r][e][f])
    BY DEF RecordInv, EventsTell
<1>2. CASE mine = {}
    BY <1>1, <1>2 DEF Tells
<1>3. CASE mine # {}
    <2>1. PICK n \in mine : LastSave(mine, n) /\ events[r][e][f] = saves[n].version
        BY <1>1, <1>3 DEF Tells
    <2>2. LastSave(mine, last)
        BY <2>1, Zenon DEF LastSave
    <2>3. mine \subseteq DOMAIN saves /\ saves \in Seq(SaveOf)
        BY SavesBehindSets DEF ArtifactInv, ArtifactTypeOK
    <2> HIDE DEF last
    <2>4. last = n
        <3>1. last \in DOMAIN saves /\ n \in DOMAIN saves /\ last \in Nat /\ n \in Nat
            BY <2>1, <2>2, <2>3 DEF LastSave
        <3>2. saves[last].call \in Nat /\ saves[n].call \in Nat
            <4>1. \A x \in SaveOf : x.call \in Nat
                BY DEF SaveOf
            <4> QED
                BY <2>3, <3>1, <4>1
        <3>3. /\ saves[n].call < saves[last].call \/ (saves[n].call = saves[last].call /\ n <= last)
              /\ saves[last].call < saves[n].call \/ (saves[last].call = saves[n].call /\ last <= n)
            BY <2>1, <2>2, Zenon DEF LastSave
        <3> QED
            BY <3>1, <3>2, <3>3
    <2>5. PICK id : id = saves[n].id
        OBVIOUS
    <2>6. n \in DOMAIN saves /\ saves[n].run = r /\ id.file = f /\ OwnSave(saves[n])
        BY <2>1, <2>3, <2>5 DEF SavesBehind, FindInv, SavesAreOwn
    <2>7. id \in Identity
        <3>1. \A x \in SaveOf : x.id \in Identity
            BY DEF SaveOf
        <3> QED
            BY <2>3, <2>5, <2>6, <3>1
    <2>8. /\ id.owner = OwnerOf[r] /\ f \notin BadFiles
          /\ id.session = IF f \in UserFiles THEN UserScoped ELSE SessionOf[r]
        BY <2>5, <2>6 DEF OwnSave
    <2>9. LoadValid(q)
        BY <2>8 DEF LoadValid, Given, FileNameOK, ArtifactAssumption
    <2>10. IdentityOf(q) = id
        BY <2>6, <2>7, <2>8 DEF IdentityOf, Identity
    <2>11. saves[n].stored => Load(q, saves[n].version) = n
        BY <2>5, <2>6, <2>7, <2>9, <2>10, VersionLoads DEF Load
    <2>12. events[r][e][f] = saves[last].version
        BY <2>1, <2>4
    <2>13. saves[last].stored => Load(q, events[r][e][f]) = last
        <3> HIDE DEF mine, q
        <3> QED
            BY <2>1, <2>4, <2>11
    <2> QED
        BY <1>3, <2>12, <2>13, Zenon DEF last
<1> QED
    BY <1>2, <1>3

\* An event has the last version that its calls saved of each file, however they
\* interleaved, and until it is deleted that version loads what they saved
\* (callback_context.go:200-209, flow.go:655-662).
THEOREM RecordedVersionsLoad == Spec => []RecordedVersionLoads
<1>1. ArtifactInv /\ [Next]_vars => ArtifactInv'
    BY ArtifactAssumption, InvStep
<1>2. ArtifactInv /\ FindInv /\ [Next]_vars => FindInv'
    BY ArtifactAssumption, FindStep
<1>3. ArtifactInv /\ RecordInv /\ [Next]_vars => RecordInv'
    BY ArtifactAssumption, RecordStep
<1>4. Init => ArtifactInv
    BY InvInit
<1>5. ArtifactInv /\ FindInv /\ RecordInv => RecordedVersionLoads
    BY ArtifactAssumption, RecordedLoads
<1> QED
    BY <1>1, <1>2, <1>3, <1>4, <1>5, FindInit, RecordInit, PTL DEF Spec

=============================================================================

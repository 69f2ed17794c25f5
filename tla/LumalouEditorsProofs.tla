------------------------ MODULE LumalouEditorsProofs ------------------------
(***************************************************************************)
(* Proofs about LumalouEditors, for any number of clients and any values   *)
(* of the fields.  The invariants take a parameter, lasting: whether the   *)
(* entry is there to be loaded again (it always is in LumalouEditors, and  *)
(* is not once LumalouFlows has deleted it).                               *)
(***************************************************************************)
EXTENDS LumalouEditors, TLAPS

\* What a call in a phase carries with it, whatever the rest of the state.
Shape(k) ==
    /\ k.call \in {"edit", "routine"} => k.revision # 0
    /\ k.call \in {"edit", "routine", "import"} /\ k.at # "form" => k.want # None
    /\ k.call \in {"import", "read", "keep"} => k.fields = Fields
    /\ k.call = "restore" => k.fields = {}
    /\ k.call = "set" => k.fields \subseteq InPlace /\ k.want # None
    /\ k.at = "form" => k.call \in {"edit", "import"}
    /\ k.at = "shown" => k.want # None
    /\ k.at = "reading" => k.call \in {"edit", "routine", "read", "keep", "restore"}
    /\ k.at = "saving" => k.call \notin {"none", "restore"} /\ k.want # None
    /\ k.at = "setting" => k.call = "set"
    /\ k.at \in {"writing", "verify"} => k.call \in {"edit", "routine", "restore"}
    /\ k.at = "writing" => k.todo # {}
    /\ k.did => k.at \in {"writing", "verify"}

\* A client whose revision is still the one of record r was based on the weekly
\* plan of r: only settings change a record in place.
BasedOn(k, r) ==
    k.revision = r.revision /\ r.desired # None =>
        k.base # None /\ \A f \in Fields \ InPlace : k.base[f] = r.desired[f]

MergedOn(k, r) ==
    [f \in Fields |-> IF f \in k.fields THEN k.want[f] ELSE r.desired[f]]

\* What the holder of the lock knows from the checks it made, with record r, a
\* device in state dev and a session that is up or not.
LockedOn(k, r, dev, up) ==
    /\ k.at = "reading" /\ k.call \in {"edit", "routine"} => k.revision = r.revision
    /\ k.at = "reading" /\ k.call = "restore" => r.desired # None
    /\ k.at = "saving" =>
          IF k.call = "set" THEN r.desired # None ELSE k.revision = r.revision
    /\ k.at \in {"writing", "verify"} =>
          r.desired # None /\ \A f \in k.fields : r.desired[f] = k.want[f]
    /\ k.at = "saving" /\ k.call \in {"edit", "routine"} /\ k.live /\ up =>
          k.todo = RestoreSteps(MergedOn(k, r), dev)
    /\ k.at = "writing" /\ up =>
          \A s \in Steps \ (k.todo \cup k.lost) :
              \A f \in StepFields(s) : dev[f] = r.desired[f]

\* The lock is held by one client at most, and only while a coordinator is
\* loaded.
Exclusive ==
    /\ \A c, d \in Clients : client[c].at \in Held /\ client[d].at \in Held => c = d
    /\ \A c \in Clients : client[c].at \in Held \cup {"queued"} => loaded
    /\ link => loaded

EditorsInv(lasting) ==
    /\ EditorsTypeOK
    /\ stored = record
    /\ Exclusive
    /\ \A c \in Clients :
          /\ Shape(client[c])
          /\ BasedOn(client[c], record)
          /\ LockedOn(client[c], record, device, link)
    /\ loaded => lasting
    /\ lasting => \A c \in Clients : client[c].revision <= record.revision
    /\ TruthfulReport

-----------------------------------------------------------------------------
(* Facts about the data.                                                   *)

LEMMA RecordFacts ==
    ASSUME NEW r \in Records
    PROVE  /\ r.revision \in Nat /\ r.desired \in Profiles \cup {None}
           /\ r.revision # 0 <=> r.desired # None
BY NoneIsNoProfile DEF Records, EmptyRecord

LEMMA FirstIsLeast ==
    ASSUME NEW todo \in SUBSET Steps, todo # {}
    PROVE  First(todo) \in todo /\ \A t \in todo : Rank(First(todo)) <= Rank(t)
<1>1. \E s \in todo : \A t \in todo : Rank(s) <= Rank(t)
  <2>1. CASE "clock" \in todo
    BY <2>1 DEF Rank, Steps
  <2>2. CASE "clock" \notin todo /\ "plan" \in todo
    BY <2>2 DEF Rank, Steps
  <2>3. CASE "clock" \notin todo /\ "plan" \notin todo
    BY <2>3 DEF Rank, Steps
  <2> QED  BY <2>1, <2>2, <2>3
<1> QED  BY <1>1 DEF First

LEMMA NoCallFacts ==
    /\ NoCall \in Client /\ Shape(NoCall) /\ NoCall.at \notin Held \cup {"queued"}
    /\ \A r \in Records : BasedOn(NoCall, r) /\ NoCall.revision <= r.revision
    /\ \A r, dev, up : LockedOn(NoCall, r, dev, up)
<1>1. NoCall \in Client /\ Shape(NoCall) /\ NoCall.at \notin Held \cup {"queued"}
  BY DEF NoCall, Client, Calls, Phases, Held, Shape, Steps
<1>2. \A r \in Records : BasedOn(NoCall, r) /\ NoCall.revision <= r.revision
  BY RecordFacts DEF NoCall, BasedOn
<1>3. \A r, dev, up : LockedOn(NoCall, r, dev, up)
  BY DEF NoCall, LockedOn
<1> QED  BY <1>1, <1>2, <1>3

LEMMA AgainFacts ==
    ASSUME NEW lasting, EditorsInv(lasting), NEW c \in Clients,
           NEW r \in Records, BasedOn(client[c], r)
    PROVE  /\ Again(c) \in Client /\ Shape(Again(c)) /\ BasedOn(Again(c), r)
           /\ Again(c).at \notin Held \cup {"queued"}
           /\ Again(c).revision \in {0, client[c].revision}
           /\ \A dev, up : LockedOn(Again(c), r, dev, up)
<1> DEFINE k == [client[c] EXCEPT !.at = "shown", !.todo = {}, !.live = FALSE,
                                  !.did = FALSE, !.lost = {}]
<1>1. client[c] \in Client /\ Shape(client[c])
  BY DEF EditorsInv, EditorsTypeOK
<1>2. CASE Again(c) = NoCall
  <2>1. NoCall.revision = 0
    BY DEF NoCall
  <2> QED  BY <1>2, <2>1, NoCallFacts
<1>3. CASE client[c].call \in {"edit", "read"} /\ client[c].want # None /\ Again(c) = k
  <2>1. k \in Client
    BY <1>1 DEF Client, Phases
  <2>2. /\ k.at = "shown" /\ ~k.did /\ k.call = client[c].call
        /\ k.revision = client[c].revision /\ k.base = client[c].base
        /\ k.want = client[c].want /\ k.fields = client[c].fields
    BY <1>1 DEF Client
  <2>3. Shape(k) /\ BasedOn(k, r) /\ \A dev, up : LockedOn(k, r, dev, up)
    <3> HIDE DEF k
    <3> QED  BY <1>1, <1>3, <2>2 DEF Shape, BasedOn, LockedOn
  <2> QED  BY <1>3, <2>1, <2>2, <2>3 DEF Held
<1> QED  BY <1>2, <1>3 DEF Again

\* What a save puts in the record: the fields of its client, from the profile
\* that client was based on or, for a setting, in place.
LEMMA SaveFacts ==
    ASSUME NEW lasting, EditorsInv(lasting), NEW c \in Clients, At(c, "saving")
    PROVE  /\ Saving(c) \in Records /\ Saving(c).desired \in Profiles
           /\ \A f \in client[c].fields : Saving(c).desired[f] = client[c].want[f]
           /\ client[c].call # "set" => Saving(c).revision = record.revision + 1
           /\ client[c].call = "set" =>
                 /\ Complete /\ Saving(c).revision = record.revision
                 /\ client[c].fields \subseteq InPlace
           /\ Complete => \A f \in Fields \ client[c].fields :
                 Saving(c).desired[f] = record.desired[f]
<1>1. /\ client[c] \in Client /\ Shape(client[c]) /\ record \in Records
      /\ LockedOn(client[c], record, device, link)
      /\ client[c].call \notin {"none", "restore"} /\ client[c].want \in Profiles
  BY DEF EditorsInv, EditorsTypeOK, Shape, At, Client
<1>2. record.revision \in Nat /\ (record.revision # 0 <=> Complete)
        /\ record.desired \in Profiles \cup {None}
  BY <1>1, RecordFacts DEF Complete
<1>3. client[c].fields # Fields => Complete
  BY <1>1, <1>2 DEF At, LockedOn, Shape, Client, Calls, Complete
<1>4. Saved(c) \in Profiles /\ \A f \in client[c].fields : Saved(c)[f] = client[c].want[f]
  <2>1. CASE client[c].fields = Fields
    BY <1>1, <2>1 DEF Saved
  <2>2. CASE client[c].fields # Fields
    BY <1>1, <1>2, <1>3, <2>2 DEF Saved, Merged, Profiles, Complete, Client
  <2> QED  BY <2>1, <2>2
<1>5. Complete => \A f \in Fields \ client[c].fields : Saved(c)[f] = record.desired[f]
  BY DEF Saved, Merged
<1>6. client[c].call = "set" => Complete /\ client[c].fields \subseteq InPlace
  BY <1>1 DEF At, LockedOn, Shape, Complete
<1>7. /\ Saving(c).desired = Saved(c)
      /\ client[c].call # "set" => Saving(c).revision = record.revision + 1
      /\ client[c].call = "set" => Saving(c).revision = record.revision
  BY <1>2 DEF Saving
<1>8. Saving(c) \in Records
  BY <1>2, <1>4, <1>6, <1>7 DEF Saving, Records
<1> QED  BY <1>4, <1>5, <1>6, <1>7, <1>8

\* The record after a step: unchanged, or what a saving client saves.
Kept == record' = record \/ \E c \in Clients : At(c, "saving") /\ record' = Saving(c)

\* No step makes a revision look current to a client that was based on another
\* weekly plan.
LEMMA KeptBasis ==
    ASSUME NEW lasting, EditorsInv(lasting), loaded, Kept, NEW c \in Clients
    PROVE  /\ record' \in Records
           /\ client[c].revision <= record'.revision
           /\ BasedOn(client[c], record')
<1>1. /\ record \in Records /\ client[c].revision \in Nat
      /\ client[c].revision <= record.revision /\ BasedOn(client[c], record)
  BY DEF EditorsInv, EditorsTypeOK, Client
<1>2. CASE record' = record
  BY <1>1, <1>2
<1>3. CASE \E d \in Clients : At(d, "saving") /\ record' = Saving(d)
  <2>1. PICK d \in Clients : At(d, "saving") /\ record' = Saving(d)
    BY <1>3
  <2>2. record.revision \in Nat
    BY <1>1, RecordFacts
  <2>3. CASE client[d].call = "set"
    BY <1>1, <2>1, <2>3, SaveFacts DEF BasedOn, Complete
  <2>4. CASE client[d].call # "set"
    BY <1>1, <2>1, <2>2, <2>4, SaveFacts DEF BasedOn
  <2> QED  BY <2>3, <2>4
<1> QED  BY <1>2, <1>3 DEF Kept

-----------------------------------------------------------------------------
(* Steps of one client.                                                    *)

\* Everything a step of client c must establish, when c becomes k: the other
\* clients hold no lock, or the step changes nothing that a holder relies on.
LEMMA ClientStep ==
    ASSUME NEW lasting, EditorsInv(lasting), NEW c \in Clients, NEW k \in Client,
           client' = [client EXCEPT ![c] = k],
           Shape(k), BasedOn(k, record'), LockedOn(k, record', device', link'),
           lasting => k.revision <= record'.revision,
           k.at \in Held \cup {"queued"} => loaded,
           loaded' = loaded, stored' = record',
           record' = record \/ (loaded /\ Kept),
           \/ client[c].at \in Held \/ Free
           \/ k.at \notin Held /\ record' = record /\ device' = device /\ link' = link,
           device' \in Profiles, link' \in BOOLEAN, link' => loaded,
           unlocked' \in BOOLEAN, previewed' \in Profiles \cup {None},
           calls' \in Nat, faults' \in Nat,
           answer' \in Answers \cup {None}, TruthfulReport'
    PROVE  EditorsInv(lasting)'
<1> USE DEF EditorsInv
<1>1. /\ client \in [Clients -> Client] /\ client'[c] = k
      /\ \A d \in Clients : d # c => client'[d] = client[d]
  BY DEF EditorsTypeOK
<1>2. record' \in Records
  BY KeptBasis DEF EditorsTypeOK
<1>3. EditorsTypeOK'
  BY <1>1, <1>2 DEF EditorsTypeOK
<1>4. Exclusive'
  BY <1>1 DEF Exclusive, Free
<1>5. ASSUME NEW d \in Clients
      PROVE  /\ Shape(client'[d]) /\ BasedOn(client'[d], record')
             /\ LockedOn(client'[d], record', device', link')
             /\ lasting => client'[d].revision <= record'.revision
  <2>1. CASE d = c
    BY <1>1, <2>1
  <2>2. CASE d # c
    <3>1. client'[d] = client[d] /\ Shape(client[d]) /\ BasedOn(client[d], record')
            /\ (lasting => client[d].revision <= record'.revision)
      BY <1>1, <2>2, KeptBasis
    <3>2. CASE record' = record /\ device' = device /\ link' = link
      BY <3>1, <3>2
    <3>3. CASE client[d].at \notin Held
      BY <3>1, <3>3 DEF LockedOn, Held
    <3> QED  BY <2>2, <3>1, <3>2, <3>3 DEF Exclusive, Free
  <2> QED  BY <2>1, <2>2
<1> QED  BY <1>3, <1>4, <1>5

\* An answer that reports nothing done, and one that reports a saved change.
LEMMA Answered ==
    ASSUME NEW told, NEW did, NEW kept, told \in Told, did \in BOOLEAN, kept \in BOOLEAN,
           answer' = [told |-> told, did |-> did, kept |-> kept],
           told \in {"saved", "saved_not_applied"} => kept,
           told \notin {"saved", "saved_not_applied", "set"} => ~did
    PROVE  answer' \in Answers \cup {None} /\ TruthfulReport'
BY DEF Answers, TruthfulReport

LEMMA Quiet ==
    ASSUME Silent
    PROVE  answer' \in Answers \cup {None} /\ TruthfulReport'
BY DEF Silent, TruthfulReport

\* A step that touches no more than the state of one client, silently.
LEMMA QuietClient ==
    ASSUME NEW lasting, EditorsInv(lasting), NEW c \in Clients, NEW k \in Client,
           client' = [client EXCEPT ![c] = k], Silent,
           UNCHANGED <<profile, loaded, link, device>>,
           previewed' \in Profiles \cup {None}, calls' \in Nat, faults' \in Nat,
           Shape(k), BasedOn(k, record), LockedOn(k, record, device, link),
           lasting => k.revision <= record.revision,
           k.at \in Held \cup {"queued"} => loaded,
           client[c].at \in Held \/ Free \/ k.at \notin Held
    PROVE  EditorsInv(lasting)'
<1>1. /\ record' = record /\ device' = device /\ link' = link /\ unlocked' = unlocked
      /\ loaded' = loaded /\ stored' = record'
  BY DEF profile, EditorsInv
<1>2. /\ device' \in Profiles /\ link' \in BOOLEAN /\ unlocked' \in BOOLEAN
      /\ link' => loaded
  BY <1>1 DEF EditorsInv, EditorsTypeOK, Exclusive
<1>3. /\ BasedOn(k, record') /\ LockedOn(k, record', device', link')
      /\ lasting => k.revision <= record'.revision
  BY <1>1
<1> QED  BY <1>1, <1>2, <1>3, ClientStep, Quiet

LEMMA StartFacts ==
    ASSUME NEW lasting, EditorsInv(lasting), NEW c \in Clients, NEW call \in Calls,
           NEW phase \in {"form", "queued"}, NEW fields \in SUBSET Fields,
           NEW want \in Profiles \cup {None}, Start(c, call, phase, fields, want),
           Calling(c), loaded,
           call \in {"edit", "routine"} => Complete,
           phase = "form" => call \in {"edit", "import"},
           call \in {"edit", "routine", "import"} /\ phase # "form" => want # None,
           call \in {"import", "read", "keep"} => fields = Fields,
           call = "restore" => fields = {},
           call = "set" => fields \subseteq InPlace /\ want # None
    PROVE  EditorsInv(lasting)'
<1> DEFINE k == [NoCall EXCEPT !.call = call, !.at = phase, !.base = record.desired,
                               !.revision = record.revision, !.fields = fields,
                               !.want = want]
<1>1. record \in Records
  BY DEF EditorsInv, EditorsTypeOK
<1>2. /\ record.revision \in Nat /\ record.desired \in Profiles \cup {None}
      /\ record.revision # 0 <=> record.desired # None
  BY <1>1, RecordFacts
<1>3. k \in Client
  BY <1>2 DEF Client, NoCall, Phases
<1>4. /\ k.call = call /\ k.at = phase /\ k.base = record.desired
      /\ k.revision = record.revision /\ k.fields = fields /\ k.want = want
      /\ k.did = FALSE
  BY DEF NoCall
<1> HIDE DEF k
<1>5. Shape(k) /\ BasedOn(k, record) /\ LockedOn(k, record, device, link)
        /\ k.at \notin Held
  BY <1>2, <1>4 DEF Shape, BasedOn, LockedOn, Complete, Held
<1>6. client' = [client EXCEPT ![c] = k] /\ Silent
  BY DEF Start, k
<1>7. /\ UNCHANGED <<profile, loaded, link, device>>
      /\ previewed' \in Profiles \cup {None} /\ calls' \in Nat /\ faults' \in Nat
  BY DEF Calling, EditorsInv, EditorsTypeOK
<1>8. k.revision <= record.revision
  BY <1>2, <1>4
<1> QED  BY <1>3, <1>5, <1>6, <1>7, <1>8, QuietClient

LEMMA CallSteps ==
    ASSUME NEW lasting, EditorsInv(lasting), NEW c \in Clients,
           \/ \E fields \in Blocks : OpenEditor(c, fields)
           \/ ExportProfile(c)
           \/ \E v \in Values : CallSetRoutine(c, v)
           \/ CallRead(c, "read") \/ CallRead(c, "keep") \/ CallRestore(c)
           \/ \E f \in ClockFields \cup {"mode"}, v \in Values : CallSetting(c, f, v)
    PROVE  EditorsInv(lasting)'
<1>1. record.desired \in Profiles \cup {None} /\ device \in Profiles
  BY RecordFacts DEF EditorsInv, EditorsTypeOK
<1>2. CASE \E fields \in Blocks : OpenEditor(c, fields)
  <2>1. PICK fields \in Blocks : OpenEditor(c, fields)
    BY <1>2
  <2>2. fields \subseteq Fields
    BY DEF Blocks, Fields
  <2> QED  BY <2>1, <2>2, StartFacts DEF OpenEditor, Calls
<1>3. CASE ExportProfile(c)
  BY <1>3, StartFacts DEF ExportProfile, Calls
<1>4. CASE \E v \in Values : CallSetRoutine(c, v)
  <2>1. PICK v \in Values : CallSetRoutine(c, v)
    BY <1>4
  <2>2. [record.desired EXCEPT !.plan = v] \in Profiles
    BY <1>1, <2>1 DEF CallSetRoutine, Complete, Profiles, Fields
  <2>3. {"plan"} \subseteq Fields
    BY DEF Fields
  <2> QED  BY <2>1, <2>2, <2>3, StartFacts, NoneIsNoProfile DEF CallSetRoutine, Calls
<1>5. CASE CallRead(c, "read")
  BY <1>5, StartFacts DEF CallRead, Calls
<1>6. CASE CallRead(c, "keep")
  BY <1>6, StartFacts DEF CallRead, Calls
<1>7. CASE CallRestore(c)
  BY <1>7, StartFacts DEF CallRestore, Calls
<1>8. CASE \E f \in ClockFields \cup {"mode"}, v \in Values : CallSetting(c, f, v)
  <2>1. PICK f \in ClockFields \cup {"mode"}, v \in Values : CallSetting(c, f, v)
    BY <1>8
  <2>2. [device EXCEPT ![f] = v] \in Profiles
    BY <1>1, <2>1 DEF Profiles
  <2>3. {f} \subseteq Fields /\ {f} \subseteq InPlace
    BY DEF Fields, InPlace
  <2> QED  BY <2>1, <2>2, <2>3, StartFacts, NoneIsNoProfile DEF CallSetting, Calls
<1> QED  BY <1>2, <1>3, <1>4, <1>5, <1>6, <1>7, <1>8

\* Forms: they stay open whatever becomes of the coordinator.
LEMMA EditorFormSteps ==
    ASSUME NEW lasting, EditorsInv(lasting), NEW c \in Clients,
           (\E want \in Profiles : Fill(c, want)) \/ Confirm(c) \/ Abandon(c)
    PROVE  EditorsInv(lasting)'
<1>1. /\ client[c] \in Client /\ Shape(client[c]) /\ BasedOn(client[c], record)
      /\ record \in Records /\ calls \in Nat /\ faults \in Nat
      /\ previewed \in Profiles \cup {None} /\ stored = record
      /\ link => loaded
      /\ device \in Profiles /\ link \in BOOLEAN /\ unlocked \in BOOLEAN
      /\ lasting => client[c].revision <= record.revision
  BY DEF EditorsInv, EditorsTypeOK, Exclusive
<1>2. CASE \E want \in Profiles : Fill(c, want)
  <2>1. PICK want \in Profiles : Fill(c, want)
    BY <1>2
  <2> DEFINE k == [client[c] EXCEPT !.want = want, !.at = "shown"]
  <2>2. k \in Client /\ client' = [client EXCEPT ![c] = k]
    BY <1>1, <2>1 DEF Client, Phases, Fill, EditorsInv, EditorsTypeOK
  <2>3. /\ k.at = "shown" /\ k.want = want /\ k.call = client[c].call
        /\ k.revision = client[c].revision /\ k.base = client[c].base
        /\ k.fields = client[c].fields /\ k.did = client[c].did
    BY <1>1 DEF Client
  <2> HIDE DEF k
  <2>4. /\ Shape(k) /\ BasedOn(k, record) /\ LockedOn(k, record, device, link)
        /\ k.at \notin Held
    BY <1>1, <2>1, <2>3, NoneIsNoProfile DEF Shape, BasedOn, LockedOn, Held, Fill, At
  <2> QED  BY <1>1, <2>1, <2>2, <2>3, <2>4, QuietClient DEF Fill, profile
<1>3. CASE Confirm(c) /\ loaded
  <2> DEFINE k == [client[c] EXCEPT !.at = "queued"]
  <2>1. k \in Client /\ client' = [client EXCEPT ![c] = k]
    BY <1>1, <1>3 DEF Client, Phases, Confirm, Goto
  <2>2. /\ k.at = "queued" /\ k.want = client[c].want /\ k.call = client[c].call
        /\ k.revision = client[c].revision /\ k.base = client[c].base
        /\ k.fields = client[c].fields /\ k.did = client[c].did
    BY <1>1 DEF Client
  <2> HIDE DEF k
  <2>3. /\ Shape(k) /\ BasedOn(k, record) /\ LockedOn(k, record, device, link)
        /\ k.at \notin Held
    BY <1>1, <1>3, <2>2 DEF Shape, BasedOn, LockedOn, Held, Confirm, At
  <2> QED  BY <1>1, <1>3, <2>1, <2>2, <2>3, QuietClient DEF Confirm, Goto, profile
<1>4. CASE Abandon(c)
  BY <1>1, <1>4, NoCallFacts, QuietClient DEF Abandon, profile, NoCall
<1>5. CASE Confirm(c) /\ ~loaded
  <2>1. answer' \in Answers \cup {None} /\ TruthfulReport'
    <3>1. client[c].did \in BOOLEAN /\ ~client[c].did
      BY <1>1, <1>5 DEF Client, Shape, Confirm, At
    <3>2. answer' = [told |-> "not_loaded", did |-> client[c].did, kept |-> FALSE]
      BY <1>5 DEF Confirm
    <3>3. /\ "not_loaded" \in Told
          /\ "not_loaded" \notin {"saved", "saved_not_applied", "set"}
      BY DEF Told
    <3> QED  BY <3>1, <3>2, <3>3, Answered
  <2>2. /\ client' = [client EXCEPT ![c] = NoCall]
        /\ UNCHANGED <<record, stored, unlocked, loaded, previewed, link, device,
                       calls, faults>>
    BY <1>5 DEF Confirm, profile
  <2>3. /\ stored' = record' /\ device' \in Profiles /\ link' \in BOOLEAN
        /\ link' => loaded
        /\ unlocked' \in BOOLEAN /\ previewed' \in Profiles \cup {None}
        /\ calls' \in Nat /\ faults' \in Nat
    BY <1>1, <2>2
  <2>4. /\ BasedOn(NoCall, record') /\ LockedOn(NoCall, record', device', link')
        /\ NoCall.revision <= record'.revision
    BY <1>1, <2>2, NoCallFacts
  <2>5. NoCall \in Client /\ Shape(NoCall) /\ NoCall.at \notin Held \cup {"queued"}
    BY NoCallFacts
  <2> QED  BY <2>1, <2>2, <2>3, <2>4, <2>5, ClientStep
<1> QED  BY <1>2, <1>3, <1>4, <1>5

\* What the invariant says of one client, with the types of the rest.
LEMMA Facts ==
    ASSUME NEW lasting, EditorsInv(lasting), NEW c \in Clients
    PROVE  /\ client[c] \in Client /\ Shape(client[c]) /\ BasedOn(client[c], record)
           /\ LockedOn(client[c], record, device, link)
           /\ client \in [Clients -> Client]
           /\ record \in Records /\ record.revision \in Nat
           /\ record.desired \in Profiles \cup {None}
           /\ record.revision # 0 <=> record.desired # None
           /\ calls \in Nat /\ faults \in Nat /\ previewed \in Profiles \cup {None}
           /\ device \in Profiles /\ link \in BOOLEAN /\ unlocked \in BOOLEAN
           /\ stored = record /\ (link => loaded)
           /\ client[c].at \in Held \cup {"queued"} => loaded
           /\ loaded => lasting
           /\ lasting => client[c].revision <= record.revision
           /\ client[c].revision \in Nat
BY RecordFacts DEF EditorsInv, EditorsTypeOK, Exclusive, Client

LEMMA RefuseStep ==
    ASSUME NEW lasting, EditorsInv(lasting), NEW c \in Clients,
           NEW told \in {"conflict", "failed", "routine_running"}, Refuse(c, told),
           client[c].at \notin {"writing", "verify"},
           UNCHANGED <<profile, loaded>>,
           client[c].at \in Held \/ (device' = device /\ link' = link),
           device' \in Profiles, link' \in BOOLEAN, link' => loaded,
           previewed' \in Profiles \cup {None}, calls' \in Nat, faults' \in Nat
    PROVE  EditorsInv(lasting)'
<1>1. /\ client[c] \in Client /\ Shape(client[c]) /\ BasedOn(client[c], record)
      /\ record \in Records /\ record.revision \in Nat
      /\ lasting => client[c].revision <= record.revision
      /\ stored = record /\ unlocked \in BOOLEAN
  BY Facts
<1>2. answer' \in Answers \cup {None} /\ TruthfulReport'
  <2>1. client[c].did \in BOOLEAN /\ ~client[c].did
    BY <1>1 DEF Client, Shape
  <2>2. answer' = [told |-> told, did |-> client[c].did, kept |-> FALSE]
    BY DEF Refuse
  <2>3. told \in Told /\ told \notin {"saved", "saved_not_applied", "set"}
    BY DEF Told
  <2> QED  BY <2>1, <2>2, <2>3, Answered
<1>3. record' = record /\ stored' = record' /\ unlocked' = unlocked /\ loaded' = loaded
  BY <1>1 DEF profile
<1>4. /\ Again(c) \in Client /\ Shape(Again(c)) /\ BasedOn(Again(c), record')
      /\ Again(c).at \notin Held \cup {"queued"}
      /\ LockedOn(Again(c), record', device', link')
      /\ lasting => Again(c).revision <= record'.revision
  BY <1>1, <1>3, AgainFacts
<1>5. client' = [client EXCEPT ![c] = Again(c)]
  BY DEF Refuse
<1> QED  BY <1>1, <1>2, <1>3, <1>4, <1>5, ClientStep

LEMMA FinishStep ==
    ASSUME NEW lasting, EditorsInv(lasting), NEW c \in Clients,
           NEW told \in {"saved", "saved_not_applied", "set"}, Finish(c, told),
           client[c].at \in Held,
           told # "set" =>
               /\ record'.desired # None
               /\ \A f \in client[c].fields : record'.desired[f] = client[c].want[f],
           Kept, stored' = record', loaded' = loaded,
           device' \in Profiles, link' \in BOOLEAN, link' => loaded,
           unlocked' \in BOOLEAN, previewed' \in Profiles \cup {None},
           calls' \in Nat, faults' \in Nat
    PROVE  EditorsInv(lasting)'
<1>1. client[c] \in Client /\ loaded
  BY Facts
<1>2. answer' \in Answers \cup {None} /\ TruthfulReport'
  <2> DEFINE kept == record'.desired # None
                       /\ \A f \in client[c].fields :
                             record'.desired[f] = client[c].want[f]
  <2>1. client[c].did \in BOOLEAN /\ kept \in BOOLEAN
    BY <1>1 DEF Client
  <2>2. answer' = [told |-> told, did |-> client[c].did, kept |-> kept]
    BY DEF Finish, Answer
  <2>3. told \in Told /\ (told \in {"saved", "saved_not_applied"} => kept)
    BY DEF Told
  <2> HIDE DEF kept
  <2> QED  BY <2>1, <2>2, <2>3, Answered
<1>3. /\ NoCall \in Client /\ Shape(NoCall) /\ BasedOn(NoCall, record')
      /\ NoCall.at \notin Held \cup {"queued"}
      /\ LockedOn(NoCall, record', device', link')
      /\ NoCall.revision <= record'.revision
  BY <1>1, NoCallFacts, KeptBasis
<1>4. client' = [client EXCEPT ![c] = NoCall]
  BY DEF Finish
<1> QED  BY <1>1, <1>2, <1>3, <1>4, ClientStep

\* The holder of the lock goes on to its next await.
LEMMA HolderStep ==
    ASSUME NEW lasting, EditorsInv(lasting), NEW c \in Clients, NEW k \in Client,
           client' = [client EXCEPT ![c] = k], Silent,
           client[c].at \in Held,
           Kept, stored' = record', loaded' = loaded,
           device' \in Profiles, link' \in BOOLEAN,
           unlocked' \in BOOLEAN, previewed' \in Profiles \cup {None},
           calls' \in Nat, faults' \in Nat,
           Shape(k), LockedOn(k, record', device', link'),
           k.revision = client[c].revision, k.base = client[c].base
    PROVE  EditorsInv(lasting)'
<1>1. loaded
  BY Facts
<1>2. BasedOn(k, record') /\ k.revision <= record'.revision
  BY <1>1, KeptBasis DEF BasedOn
<1>3. answer' \in Answers \cup {None} /\ TruthfulReport'
  BY Quiet
<1> QED  BY <1>1, <1>2, <1>3, ClientStep

-----------------------------------------------------------------------------
(* The lock is granted.                                                    *)

LEMMA GrantedFacts ==
    ASSUME NEW c \in Clients, NEW phase \in Held, client[c] \in Client, Goto(c, phase)
    PROVE  \E k \in Client :
              /\ client' = [client EXCEPT ![c] = k] /\ Silent
              /\ k = [client[c] EXCEPT !.at = phase]
              /\ k.at = phase /\ k.call = client[c].call /\ k.want = client[c].want
              /\ k.revision = client[c].revision /\ k.base = client[c].base
              /\ k.fields = client[c].fields /\ k.did = client[c].did
              /\ k.live = client[c].live /\ k.todo = client[c].todo
<1> DEFINE k == [client[c] EXCEPT !.at = phase]
<1>1. k \in Client
  BY DEF Client, Held, Phases
<1>2. /\ k.at = phase /\ k.call = client[c].call /\ k.want = client[c].want
      /\ k.revision = client[c].revision /\ k.base = client[c].base
      /\ k.fields = client[c].fields /\ k.did = client[c].did
      /\ k.live = client[c].live /\ k.todo = client[c].todo
  BY DEF Client
<1>3. client' = [client EXCEPT ![c] = k] /\ Silent
  BY DEF Goto
<1> QED  BY <1>1, <1>2, <1>3

LEMMA LockSteps ==
    ASSUME NEW lasting, EditorsInv(lasting), NEW c \in Clients,
           BeginEdit(c) \/ BeginImport(c) \/ BeginRead(c) \/ BeginAccept(c)
             \/ BeginRestore(c)
    PROVE  EditorsInv(lasting)'
<1>1. /\ client[c] \in Client /\ Shape(client[c]) /\ BasedOn(client[c], record)
      /\ record.revision \in Nat
      /\ record.revision # 0 <=> record.desired # None
      /\ calls \in Nat /\ faults \in Nat /\ previewed \in Profiles \cup {None}
      /\ device \in Profiles /\ link \in BOOLEAN
      /\ link => loaded
      /\ lasting => client[c].revision <= record.revision
  BY Facts
<1>2. /\ Free /\ loaded /\ client[c].at = "queued"
      /\ UNCHANGED <<profile, loaded, previewed, link, device, calls, faults>>
  BY DEF BeginEdit, BeginImport, BeginRead, BeginAccept, BeginRestore, Granted, At
<1>3. /\ device' = device /\ link' = link /\ previewed' = previewed /\ calls' = calls
      /\ faults' = faults /\ UNCHANGED <<profile, loaded>>
      /\ UNCHANGED <<profile, loaded, link, device>>
  BY <1>2
<1>4. CASE Refuse(c, "conflict") \/ Refuse(c, "failed")
  BY <1>1, <1>2, <1>3, <1>4, RefuseStep
<1>5. CASE \/ BeginEdit(c) /\ ~Conflict(c) /\ unlocked
           \/ BeginRead(c)
           \/ BeginRestore(c) /\ unlocked /\ ~Conflict(c) /\ Complete
  <2>1. "reading" \in Held
    BY DEF Held
  <2>2. PICK k \in Client :
              /\ client' = [client EXCEPT ![c] = k] /\ Silent
              /\ k.at = "reading" /\ k.call = client[c].call /\ k.want = client[c].want
              /\ k.revision = client[c].revision /\ k.base = client[c].base
              /\ k.fields = client[c].fields /\ k.did = client[c].did
    <3>1. Goto(c, "reading")
      BY <1>5 DEF BeginEdit, BeginRead, BeginRestore
    <3> QED  BY <1>1, <2>1, <3>1, GrantedFacts
  <2>3. /\ k.call \in {"edit", "routine", "read", "keep", "restore"}
        /\ k.call \in {"edit", "routine"} => k.revision = record.revision
        /\ k.call = "restore" => record.desired # None
    BY <1>5, <2>2
       DEF BeginEdit, BeginRead, BeginRestore, Granted, Conflict, Complete
  <2>4. Shape(k) /\ BasedOn(k, record) /\ LockedOn(k, record, device, link)
    BY <1>1, <1>2, <2>2, <2>3 DEF Shape, BasedOn, LockedOn
  <2> QED  BY <1>1, <1>2, <1>3, <2>2, <2>4, QuietClient
<1>6. CASE \/ BeginImport(c) /\ ~Conflict(c)
           \/ BeginAccept(c) /\ previewed = client[c].want /\ ~Conflict(c)
  <2>1. "saving" \in Held
    BY DEF Held
  <2>2. PICK k \in Client :
              /\ client' = [client EXCEPT ![c] = k] /\ Silent
              /\ k.at = "saving" /\ k.call = client[c].call /\ k.want = client[c].want
              /\ k.revision = client[c].revision /\ k.base = client[c].base
              /\ k.fields = client[c].fields /\ k.did = client[c].did
    <3>1. Goto(c, "saving")
      BY <1>6 DEF BeginImport, BeginAccept
    <3> QED  BY <1>1, <2>1, <3>1, GrantedFacts
  <2>3. /\ k.call \in {"import", "read", "keep"} /\ k.want # None
        /\ k.revision = record.revision
    BY <1>1, <1>2, <1>6, <2>2 DEF BeginImport, BeginAccept, Granted, Shape, Conflict
  <2>4. Shape(k) /\ BasedOn(k, record) /\ LockedOn(k, record, device, link)
    BY <1>1, <1>2, <2>2, <2>3 DEF Shape, BasedOn, LockedOn
  <2> QED  BY <1>1, <1>2, <1>3, <2>2, <2>4, QuietClient
<1> QED  BY <1>4, <1>5, <1>6
         DEF BeginEdit, BeginImport, BeginRead, BeginAccept, BeginRestore

LEMMA SettingLockStep ==
    ASSUME NEW lasting, EditorsInv(lasting), NEW c \in Clients, BeginSetting(c)
    PROVE  EditorsInv(lasting)'
<1>1. /\ client[c] \in Client /\ Shape(client[c]) /\ BasedOn(client[c], record)
      /\ calls \in Nat /\ faults \in Nat /\ previewed \in Profiles \cup {None}
      /\ device \in Profiles /\ link \in BOOLEAN
      /\ link => loaded
      /\ lasting => client[c].revision <= record.revision
  BY Facts
<1>2. /\ Free /\ loaded /\ client[c].at = "queued" /\ client[c].call = "set"
      /\ UNCHANGED <<profile, loaded, link, device>>
      /\ device' = device /\ link' = link /\ calls' = calls /\ faults' = faults
      /\ UNCHANGED <<profile, loaded>>
  BY DEF BeginSetting, Granted, At
<1>3. CASE unlocked /\ link
  <2>1. PICK f \in client[c].fields :
            client' = [client EXCEPT
                ![c].at = "setting", ![c].fields = Block(f),
                ![c].want = [device EXCEPT ![f] = client[c].want[f]]]
    BY <1>3 DEF BeginSetting
  <2>2. f \in InPlace /\ client[c].want \in Profiles
    BY <1>1, <1>2 DEF Shape, Client
  <2>3. Block(f) \subseteq InPlace /\ Block(f) \subseteq Fields
    BY <2>2 DEF Block, InPlace, ClockFields, Fields
  <2>4. [device EXCEPT ![f] = client[c].want[f]] \in Profiles
    BY <1>1, <2>2 DEF Profiles, InPlace, Fields
  <2> DEFINE k == [client[c] EXCEPT !.at = "setting", !.fields = Block(f),
                       !.want = [device EXCEPT ![f] = client[c].want[f]]]
  <2>5. k \in Client
    BY <1>1, <2>3, <2>4 DEF Client, Phases
  <2>6. /\ k.at = "setting" /\ k.fields = Block(f) /\ k.want \in Profiles
        /\ k.call = "set" /\ k.did = client[c].did
        /\ k.revision = client[c].revision /\ k.base = client[c].base
    BY <1>1, <1>2, <2>4 DEF Client
  <2>7. client' = [client EXCEPT ![c] = k]
    BY <2>1
  <2> HIDE DEF k
  <2>8. Shape(k) /\ BasedOn(k, record) /\ LockedOn(k, record, device, link)
    BY <1>1, <1>2, <2>3, <2>6, NoneIsNoProfile DEF Shape, BasedOn, LockedOn
  <2>9. Silent /\ previewed' \in Profiles \cup {None}
    BY <1>3 DEF BeginSetting
  <2> QED  BY <1>1, <1>2, <2>5, <2>6, <2>7, <2>8, <2>9, QuietClient
<1>4. CASE ~(unlocked /\ link)
  <2>1. Refuse(c, "failed") /\ previewed' = previewed
    BY <1>4 DEF BeginSetting
  <2> QED  BY <1>1, <1>2, <2>1, RefuseStep
<1> QED  BY <1>3, <1>4

-----------------------------------------------------------------------------
(* The device is read and written.                                         *)

LEMMA MergedFacts ==
    ASSUME NEW k \in Client, NEW r, r.desired \in Profiles, k.want # None \/ k.fields = {}
    PROVE  MergedOn(k, r) \in Profiles
<1>1. CASE k.fields = {}
  BY <1>1 DEF MergedOn, Profiles
<1>2. CASE k.want # None
  <2>1. k.want \in Profiles
    BY <1>2 DEF Client
  <2> QED  BY <2>1 DEF MergedOn, Profiles
<1> QED  BY <1>1, <1>2

\* What an unchanged profile tells of the fields of its client.
LEMMA MergedIsDesired ==
    ASSUME NEW c \in Clients, client[c] \in Client, Merged(c) = record.desired
    PROVE  \A f \in client[c].fields : record.desired[f] = client[c].want[f]
BY DEF Merged, Client

LEMMA StepsLeft ==
    ASSUME NEW want \in Profiles, NEW have \in Profiles
    PROVE  /\ RestoreSteps(want, have) \in SUBSET Steps
           /\ \A s \in Steps \ RestoreSteps(want, have) :
                 \A f \in StepFields(s) : have[f] = want[f]
BY DEF RestoreSteps

\* A restore begins, with the saved profile as it will be.
LEMMA RestoreStep ==
    ASSUME NEW lasting, EditorsInv(lasting), NEW c \in Clients,
           NEW todo \in SUBSET Steps, Restore(c, todo),
           client[c].at \in Held,
           client[c].call \in {"edit", "routine", "restore"},
           record'.desired # None,
           \A f \in client[c].fields : record'.desired[f] = client[c].want[f],
           link' => \A s \in Steps \ todo : \A f \in StepFields(s) :
                       device'[f] = record'.desired[f],
           Kept, stored' = record', loaded' = loaded,
           device' \in Profiles, link' \in BOOLEAN, unlocked' \in BOOLEAN,
           calls' \in Nat, faults' \in Nat
    PROVE  EditorsInv(lasting)'
<1>1. /\ client[c] \in Client /\ Shape(client[c]) /\ loaded
      /\ previewed \in Profiles \cup {None}
  BY Facts
<1>2. CASE todo = {}
  <2>1. Finish(c, "saved") /\ previewed' = previewed
    BY <1>2 DEF Restore
  <2> QED  BY <1>1, <2>1, FinishStep
<1>3. CASE todo # {}
  <2> DEFINE k == [client[c] EXCEPT !.at = "writing", !.todo = todo,
                                    !.did = record' # record]
  <2>1. /\ client' = [client EXCEPT ![c] = k] /\ previewed' = None /\ Silent
    BY <1>3 DEF Restore
  <2>2. k \in Client
    BY <1>1 DEF Client, Phases
  <2>3. /\ k.at = "writing" /\ k.todo = todo /\ k.call = client[c].call
        /\ k.fields = client[c].fields /\ k.want = client[c].want
        /\ k.revision = client[c].revision /\ k.base = client[c].base
    BY <1>1 DEF Client
  <2> HIDE DEF k
  <2>4. Shape(k)
    BY <1>1, <1>3, <2>3 DEF Shape, Held
  <2>5. LockedOn(k, record', device', link')
    BY <2>3 DEF LockedOn
  <2> QED  BY <2>1, <2>2, <2>3, <2>4, <2>5, HolderStep
<1> QED  BY <1>2, <1>3

LEMMA ReadForWriteStep ==
    ASSUME NEW lasting, EditorsInv(lasting), NEW c \in Clients, ReadForWrite(c)
    PROVE  EditorsInv(lasting)'
<1>1. /\ client[c] \in Client /\ Shape(client[c]) /\ BasedOn(client[c], record)
      /\ LockedOn(client[c], record, device, link)
      /\ record \in Records /\ record.desired \in Profiles \cup {None}
      /\ record.revision # 0 <=> record.desired # None
      /\ calls \in Nat /\ faults \in Nat /\ previewed \in Profiles \cup {None}
      /\ device \in Profiles /\ unlocked \in BOOLEAN /\ stored = record
      /\ client[c].at \in Held => loaded
  BY Facts
<1>2. /\ client[c].at = "reading" /\ client[c].at \in Held
      /\ client[c].call \in {"edit", "routine", "restore"}
      /\ link' = TRUE
      /\ record' = record /\ stored' = record' /\ unlocked' = unlocked
      /\ loaded' = loaded /\ device' = device /\ calls' = calls /\ faults' = faults
      /\ UNCHANGED <<profile, loaded>>
      /\ Kept
  BY <1>1 DEF ReadForWrite, At, Held, profile, Kept
<1>3. /\ record.desired \in Profiles
      /\ client[c].call \in {"edit", "routine"} => client[c].revision = record.revision
      /\ client[c].want # None \/ client[c].fields = {}
  BY <1>1, <1>2 DEF LockedOn, Shape
<1>4. Merged(c) = MergedOn(client[c], record) /\ Merged(c) \in Profiles
  BY <1>1, <1>3, MergedFacts DEF Merged, MergedOn
<1> DEFINE todo == RestoreSteps(Merged(c), device)
<1>5. todo \in SUBSET Steps
  BY <1>1, <1>4, StepsLeft
<1>6. CASE Refuse(c, "routine_running") /\ previewed' = previewed
  BY <1>1, <1>2, <1>6, RefuseStep
<1>7. CASE /\ Edited(c)
           /\ client' = [client EXCEPT ![c].at = "saving", ![c].todo = todo,
                                       ![c].live = TRUE]
           /\ Silent /\ previewed' = previewed
  <2> DEFINE k == [client[c] EXCEPT !.at = "saving", !.todo = todo, !.live = TRUE]
  <2>1. client' = [client EXCEPT ![c] = k]
    BY <1>7
  <2>2. k \in Client
    BY <1>1, <1>5 DEF Client, Phases
  <2>3. /\ k.at = "saving" /\ k.todo = todo /\ k.call = client[c].call
        /\ k.fields = client[c].fields /\ k.want = client[c].want
        /\ k.did = client[c].did
        /\ k.revision = client[c].revision /\ k.base = client[c].base
    BY <1>1 DEF Client
  <2>4. MergedOn(k, record) = Merged(c)
    BY <2>3 DEF MergedOn, Merged
  <2>5. client[c].call # "restore"
    <3>1. ASSUME client[c].call = "restore" PROVE FALSE
      <4>1. Merged(c) = [f \in Fields |-> record.desired[f]]
        BY <1>1, <3>1 DEF Merged, Shape
      <4> QED  BY <1>3, <1>7, <4>1 DEF Edited, Profiles
    <3> QED  BY <3>1
  <2> HIDE DEF k
  <2>6. Shape(k)
    BY <1>1, <1>2, <2>3, <2>5 DEF Shape
  <2>7. LockedOn(k, record', device', link')
    BY <1>2, <1>3, <2>3, <2>4, <2>5 DEF LockedOn
  <2> QED  BY <1>1, <1>2, <1>7, <2>1, <2>2, <2>3, <2>6, <2>7, HolderStep
<1>8. CASE ~Edited(c) /\ Restore(c, todo)
  <2>1. Merged(c) = record.desired
    BY <1>8 DEF Edited
  <2>2. /\ \A f \in client[c].fields : record'.desired[f] = client[c].want[f]
        /\ \A s \in Steps \ todo : \A f \in StepFields(s) :
              device'[f] = record'.desired[f]
    BY <1>1, <1>2, <1>3, <2>1, MergedIsDesired, StepsLeft
  <2>3. record'.desired # None
    BY <1>2, <1>3, NoneIsNoProfile
  <2> HIDE DEF todo
  <2> QED  BY <1>1, <1>2, <1>5, <1>8, <2>2, <2>3, RestoreStep
<1> QED  BY <1>6, <1>7, <1>8 DEF ReadForWrite

LEMMA ReadForPreviewStep ==
    ASSUME NEW lasting, EditorsInv(lasting), NEW c \in Clients, ReadForPreview(c)
    PROVE  EditorsInv(lasting)'
<1>1. /\ client[c] \in Client /\ Shape(client[c])
      /\ record.revision \in Nat /\ record.desired \in Profiles \cup {None}
      /\ calls \in Nat /\ faults \in Nat
      /\ device \in Profiles /\ unlocked \in BOOLEAN /\ stored = record
      /\ client[c].at \in Held => loaded
  BY Facts
<1>2. /\ client[c].at = "reading" /\ client[c].at \in Held
      /\ client[c].call \in {"read", "keep"}
      /\ link' = TRUE /\ previewed' = device
      /\ record' = record /\ stored' = record' /\ unlocked' = unlocked
      /\ loaded' = loaded /\ device' = device /\ calls' = calls /\ faults' = faults
      /\ Silent
  BY <1>1 DEF ReadForPreview, At, Held, profile
<1> DEFINE k == [client[c] EXCEPT
                   !.want = device, !.base = record.desired, !.revision = record.revision,
                   !.at = IF client[c].call = "read" THEN "shown" ELSE "queued"]
<1>3. client' = [client EXCEPT ![c] = k]
  BY DEF ReadForPreview
<1>4. k \in Client
  BY <1>1 DEF Client, Phases
<1>5. /\ k.at \in {"shown", "queued"} /\ k.want = device /\ k.base = record.desired
      /\ k.revision = record.revision /\ k.call = client[c].call
      /\ k.fields = client[c].fields /\ k.did = client[c].did
  BY <1>1 DEF Client
<1> HIDE DEF k
<1>6. /\ Shape(k) /\ BasedOn(k, record') /\ LockedOn(k, record', device', link')
      /\ k.at \notin Held /\ k.revision <= record'.revision
  BY <1>1, <1>2, <1>5, NoneIsNoProfile DEF Shape, BasedOn, LockedOn, Held
<1>7. answer' \in Answers \cup {None} /\ TruthfulReport'
  BY <1>2, Quiet
<1> QED  BY <1>1, <1>2, <1>3, <1>4, <1>6, <1>7, ClientStep

LEMMA ReadFailsStep ==
    ASSUME NEW lasting, EditorsInv(lasting), NEW c \in Clients, ReadFails(c)
    PROVE  EditorsInv(lasting)'
<1>1. /\ client[c] \in Client /\ Shape(client[c])
      /\ LockedOn(client[c], record, device, link)
      /\ record.desired \in Profiles \cup {None}
      /\ record.revision # 0 <=> record.desired # None
      /\ calls \in Nat /\ faults \in Nat /\ previewed \in Profiles \cup {None}
      /\ device \in Profiles /\ unlocked \in BOOLEAN /\ stored = record
      /\ client[c].at \in Held => loaded
  BY Facts
<1>2. /\ client[c].at = "reading" /\ client[c].at \in Held /\ link' = FALSE
      /\ record' = record /\ stored' = record' /\ unlocked' = unlocked
      /\ loaded' = loaded /\ device' = device /\ calls' = calls /\ faults' = faults
      /\ previewed' = previewed
      /\ UNCHANGED <<profile, loaded>>
      /\ Kept
  BY <1>1 DEF ReadFails, At, Held, profile, Kept
<1>3. CASE client[c].call \in {"edit", "routine"} /\ Edited(c)
  <2>1. Goto(c, "saving") /\ "saving" \in Held
    BY <1>3 DEF ReadFails, Held
  <2>2. PICK k \in Client :
              /\ client' = [client EXCEPT ![c] = k] /\ Silent
              /\ k.at = "saving" /\ k.call = client[c].call /\ k.want = client[c].want
              /\ k.revision = client[c].revision /\ k.base = client[c].base
              /\ k.fields = client[c].fields /\ k.did = client[c].did
    BY <1>1, <2>1, GrantedFacts
  <2>3. Shape(k) /\ LockedOn(k, record', device', link')
    BY <1>1, <1>2, <1>3, <2>2 DEF Shape, LockedOn
  <2> QED  BY <1>1, <1>2, <2>2, <2>3, HolderStep
<1>4. CASE client[c].call \in {"edit", "routine"} /\ ~Edited(c)
  <2>1. Finish(c, "saved_not_applied") /\ Merged(c) = record.desired
    BY <1>4 DEF ReadFails, Edited
  <2>2. \A f \in client[c].fields : record'.desired[f] = client[c].want[f]
    BY <1>1, <1>2, <2>1, MergedIsDesired
  <2>3. record'.desired # None
    BY <1>1, <1>2, <1>4 DEF Shape, LockedOn
  <2> QED  BY <1>1, <1>2, <2>1, <2>2, <2>3, FinishStep
<1>5. CASE client[c].call \notin {"edit", "routine"}
  <2>1. Refuse(c, "failed")
    BY <1>5 DEF ReadFails
  <2> QED  BY <1>1, <1>2, <2>1, RefuseStep
<1> QED  BY <1>3, <1>4, <1>5

\* One restore step brings its fields to the saved profile and leaves the rest.
LEMMA WroteFacts ==
    ASSUME record.desired \in Profiles, device \in Profiles, NEW s \in Steps
    PROVE  /\ Wrote(s) \in Profiles
           /\ \A f \in StepFields(s) : Wrote(s)[f] = record.desired[f]
           /\ \A f \in Fields \ StepFields(s) : Wrote(s)[f] = device[f]
           /\ \A t \in Steps : StepFields(t) \subseteq Fields
BY DEF Wrote, Profiles, StepFields, Steps, Fields, ClockFields

LEMMA WriteSteps ==
    ASSUME NEW lasting, EditorsInv(lasting), NEW c \in Clients,
           WriteStep(c) \/ Verify(c) \/ WriteFails(c)
    PROVE  EditorsInv(lasting)'
<1>1. /\ client[c] \in Client /\ Shape(client[c])
      /\ LockedOn(client[c], record, device, link)
      /\ record.desired \in Profiles \cup {None}
      /\ calls \in Nat /\ faults \in Nat /\ previewed \in Profiles \cup {None}
      /\ device \in Profiles /\ unlocked \in BOOLEAN /\ stored = record
      /\ client[c].at \in Held => loaded
  BY Facts
<1>2. /\ client[c].at \in {"writing", "verify"} /\ client[c].at \in Held
      /\ record' = record /\ stored' = record' /\ unlocked' = unlocked
      /\ loaded' = loaded
      /\ previewed' = previewed
      /\ calls' \in Nat /\ faults' \in Nat
      /\ Kept
  BY <1>1 DEF WriteStep, Verify, WriteFails, At, Held, profile, Kept, NoFault, Fault
<1>3. /\ record.desired \in Profiles
      /\ \A f \in client[c].fields : record.desired[f] = client[c].want[f]
      /\ record'.desired # None
  BY <1>1, <1>2 DEF LockedOn
<1>4. client[c].at = "writing" =>
        /\ First(client[c].todo) \in Steps /\ client[c].todo \in SUBSET Steps
        /\ Wrote(First(client[c].todo)) \in Profiles
  BY <1>1, <1>3, FirstIsLeast, WroteFacts DEF Shape, Client
<1>5. CASE WriteStep(c)
  <2> DEFINE s == First(client[c].todo)
             done(lost) == [client[c] EXCEPT
                     !.todo = client[c].todo \ {s}, !.lost = lost,
                     !.at = IF client[c].todo \ {s} = {} THEN "verify" ELSE "writing"]
  <2>0. PICK lost \in {client[c].lost, client[c].lost \cup {s}} :
            /\ client' = [client EXCEPT ![c] = done(lost)]
            /\ device' \in {device, Wrote(s)}
            /\ device' = Wrote(s) \/ s \in lost
    BY <1>5 DEF WriteStep
  <2> DEFINE k == done(lost)
  <2>1. /\ client[c].at = "writing" /\ link /\ link' = link
        /\ client' = [client EXCEPT ![c] = k] /\ Silent
    BY <1>5, <2>0 DEF WriteStep, At
  <2>2. k \in Client
    BY <1>1, <1>4, <2>0, <2>1 DEF Client, Phases
  <2>3. /\ k.at = IF k.todo = {} THEN "verify" ELSE "writing"
        /\ k.todo = client[c].todo \ {s} /\ k.call = client[c].call
        /\ k.fields = client[c].fields /\ k.want = client[c].want
        /\ k.did = client[c].did /\ k.lost = lost
        /\ k.revision = client[c].revision /\ k.base = client[c].base
    BY <1>1 DEF Client
  <2>4. s \in Steps /\ client[c].lost \subseteq lost
    BY <1>4, <2>0, <2>1
  <2> HIDE DEF k
  <2>5. Shape(k)
    BY <1>1, <1>2, <2>3 DEF Shape
  <2>6. \A t \in Steps \ (k.todo \cup k.lost) : \A f \in StepFields(t) :
            device'[f] = record'.desired[f]
    <3> SUFFICES ASSUME NEW t \in Steps \ (k.todo \cup k.lost),
                        NEW f \in StepFields(t)
                 PROVE  device'[f] = record.desired[f]
      BY <1>2
    <3>1. t # s => device[f] = record.desired[f]
      BY <1>1, <2>1, <2>3, <2>4 DEF LockedOn
    <3>2. t = s => device' = Wrote(s)
      BY <2>0, <2>3
    <3>3. CASE device' = Wrote(s)
      <4>1. f \in StepFields(s) => device'[f] = record.desired[f]
        BY <1>1, <1>3, <2>4, <3>3, WroteFacts
      <4>2. f \notin StepFields(s) => device'[f] = device[f] /\ t # s
        BY <1>1, <1>3, <2>4, <3>3, WroteFacts
      <4> QED  BY <3>1, <4>1, <4>2
    <3>4. CASE device' = device
      BY <3>1, <3>2, <3>4, <1>1, <1>3, <2>4, WroteFacts
    <3> QED  BY <2>0, <3>3, <3>4
  <2>7. LockedOn(k, record', device', link')
    BY <1>2, <1>3, <2>3, <2>6 DEF LockedOn
  <2>8. device' \in Profiles /\ link' \in BOOLEAN
    BY <1>1, <1>4, <2>0, <2>1
  <2> QED  BY <1>1, <1>2, <2>1, <2>2, <2>3, <2>5, <2>7, <2>8, HolderStep
<1>6. CASE Verify(c)
  <2>1. /\ Finish(c, "saved") \/ Finish(c, "saved_not_applied")
        /\ device' = device /\ link' = TRUE
    BY <1>6 DEF Verify
  <2> QED  BY <1>1, <1>2, <1>3, <2>1, FinishStep
<1>7. CASE WriteFails(c)
  <2>1. Finish(c, "saved_not_applied") /\ device' \in Profiles /\ link' = FALSE
    BY <1>1, <1>4, <1>7 DEF WriteFails, At
  <2> QED  BY <1>1, <1>2, <1>3, <2>1, FinishStep
<1> QED  BY <1>5, <1>6, <1>7

LEMMA SettingSteps ==
    ASSUME NEW lasting, EditorsInv(lasting), NEW c \in Clients,
           SettingConfirmed(c) \/ SettingFails(c)
    PROVE  EditorsInv(lasting)'
<1>1. /\ client[c] \in Client /\ Shape(client[c])
      /\ calls \in Nat /\ faults \in Nat /\ previewed \in Profiles \cup {None}
      /\ device \in Profiles /\ unlocked \in BOOLEAN /\ stored = record
      /\ client[c].at \in Held => loaded
  BY Facts
<1>2. /\ client[c].at = "setting" /\ client[c].at \in Held /\ client[c].call = "set"
      /\ client[c].want \in Profiles /\ client[c].want # None
      /\ record' = record /\ stored' = record' /\ unlocked' = unlocked
      /\ loaded' = loaded
      /\ previewed' = previewed
      /\ UNCHANGED <<profile, loaded>>
      /\ calls' \in Nat /\ faults' \in Nat
      /\ Kept
  <2>1. At(c, "setting") /\ UNCHANGED <<profile, loaded, previewed>>
    BY DEF SettingConfirmed, SettingFails
  <2>2. CASE SettingConfirmed(c)
    BY <1>1, <2>1, <2>2 DEF SettingConfirmed, At, Held, profile, Kept, Shape, Client
  <2>3. CASE SettingFails(c)
    <3>1. Fault \/ NoFault
      BY <2>3 DEF SettingFails
    <3> QED  BY <1>1, <2>1, <3>1 DEF Fault, NoFault, At, Held, profile, Kept, Shape, Client
  <2> QED  BY <2>2, <2>3
<1>3. CASE SettingConfirmed(c)
  <2>1. device' \in Profiles /\ link' = link /\ link = TRUE
    BY <1>1, <1>2, <1>3, Facts DEF SettingConfirmed
  <2>2. CASE Complete /\ Goto(c, "saving")
    <3>1. "saving" \in Held
      BY DEF Held
    <3>2. PICK k \in Client :
                /\ client' = [client EXCEPT ![c] = k] /\ Silent
                /\ k.at = "saving" /\ k.call = client[c].call /\ k.want = client[c].want
                /\ k.revision = client[c].revision /\ k.base = client[c].base
                /\ k.fields = client[c].fields /\ k.did = client[c].did
      BY <1>1, <2>2, <3>1, GrantedFacts
    <3>3. Shape(k) /\ LockedOn(k, record', device', link')
      BY <1>1, <1>2, <2>2, <3>2 DEF Shape, LockedOn, Complete
    <3> QED  BY <1>1, <1>2, <2>1, <3>2, <3>3, HolderStep
  <2>3. CASE Finish(c, "set")
    BY <1>1, <1>2, <2>1, <2>3, FinishStep
  <2> QED  BY <1>3, <2>2, <2>3 DEF SettingConfirmed
<1>4. CASE SettingFails(c)
  <2>1. /\ Refuse(c, "failed") /\ device' \in Profiles /\ link' \in BOOLEAN
        /\ link' => loaded
    BY <1>1, <1>2, <1>4, Facts DEF SettingFails
  <2> QED  BY <1>1, <1>2, <2>1, RefuseStep
<1> QED  BY <1>3, <1>4

-----------------------------------------------------------------------------
(* Saves.                                                                  *)

LEMMA SaveSteps ==
    ASSUME NEW lasting, EditorsInv(lasting), NEW c \in Clients,
           SavedEdit(c) \/ SavedImport(c) \/ SavedAccept(c) \/ SavedSetting(c)
    PROVE  EditorsInv(lasting)'
<1>1. /\ client[c] \in Client /\ Shape(client[c])
      /\ LockedOn(client[c], record, device, link)
      /\ record.revision # 0 <=> record.desired # None
      /\ record.desired \in Profiles \cup {None}
      /\ calls \in Nat /\ faults \in Nat /\ previewed \in Profiles \cup {None}
      /\ device \in Profiles /\ unlocked \in BOOLEAN /\ link \in BOOLEAN
      /\ client[c].at \in Held => loaded
      /\ link => loaded
  BY Facts
<1>2. /\ At(c, "saving") /\ client[c].at = "saving" /\ client[c].at \in Held
      /\ record' = Saving(c) /\ stored' = record'
      /\ loaded' = loaded /\ link' = link /\ device' = device
      /\ calls' = calls /\ faults' = faults
      /\ Kept
  BY DEF SavedEdit, SavedImport, SavedAccept, SavedSetting, SaveRecord, At, Held, Kept
<1>3. /\ record'.desired \in Profiles /\ record'.desired # None
      /\ \A f \in client[c].fields : record'.desired[f] = client[c].want[f]
  BY <1>2, SaveFacts, NoneIsNoProfile
<1>4. CASE SavedEdit(c) /\ client[c].live
  <2>1. /\ Restore(c, client[c].todo) /\ unlocked' = unlocked
        /\ client[c].call \in {"edit", "routine"}
        /\ client[c].todo \in SUBSET Steps
    BY <1>1, <1>4 DEF SavedEdit, Client
  <2>2. Complete /\ record.desired \in Profiles
    BY <1>1, <1>2, <2>1 DEF Complete, Shape, LockedOn
  <2>3. \A f \in Fields : record'.desired[f] = MergedOn(client[c], record)[f]
    BY <1>2, <1>3, <2>2, SaveFacts DEF MergedOn
  <2>4. MergedOn(client[c], record) \in Profiles
    BY <1>1, <1>2, <2>2, MergedFacts DEF Shape
  <2>5. link => client[c].todo = RestoreSteps(MergedOn(client[c], record), device)
    BY <1>1, <1>2, <1>4, <2>1 DEF LockedOn
  <2>6. link' => \A s \in Steps \ client[c].todo : \A f \in StepFields(s) :
                    device'[f] = record'.desired[f]
    <3>1. \A s \in Steps : StepFields(s) \subseteq Fields
      BY DEF Steps, StepFields, Fields, ClockFields
    <3> QED  BY <1>1, <1>2, <2>3, <2>4, <2>5, <3>1, StepsLeft
  <2> QED  BY <1>1, <1>2, <1>3, <2>1, <2>6, RestoreStep
<1>5. CASE SavedEdit(c) /\ ~client[c].live
  <2>1. /\ Finish(c, "saved_not_applied") /\ previewed' = previewed
        /\ unlocked' = unlocked
    BY <1>5 DEF SavedEdit
  <2> QED  BY <1>1, <1>2, <1>3, <2>1, FinishStep
<1>6. CASE SavedImport(c) \/ SavedAccept(c) \/ SavedSetting(c)
  <2>1. /\ Finish(c, "saved") \/ Finish(c, "set")
        /\ previewed' \in Profiles \cup {None} /\ unlocked' \in BOOLEAN
    BY <1>1, <1>6 DEF SavedImport, SavedAccept, SavedSetting
  <2> QED  BY <1>1, <1>2, <1>3, <2>1, FinishStep
<1> QED  BY <1>4, <1>5, <1>6

-----------------------------------------------------------------------------
(* The environment.                                                        *)

\* The link is lost, or nothing happens to it and to the device.
LEMMA LinkStep ==
    ASSUME NEW lasting, EditorsInv(lasting),
           UNCHANGED <<profile, loaded, client>>, Silent,
           previewed' \in Profiles \cup {None}, calls' \in Nat, faults' \in Nat,
           device' \in Profiles, link' \in BOOLEAN,
           link' => link /\ device' = device
    PROVE  EditorsInv(lasting)'
<1> USE DEF EditorsInv
<1>1. /\ record' = record /\ stored' = stored /\ unlocked' = unlocked
      /\ loaded' = loaded /\ client' = client
  BY DEF profile
<1>2. EditorsTypeOK' /\ Exclusive' /\ TruthfulReport'
  BY <1>1, Quiet DEF EditorsTypeOK, Exclusive
<1>3. \A c \in Clients : LockedOn(client'[c], record', device', link')
  BY <1>1 DEF LockedOn
<1> QED  BY <1>1, <1>2, <1>3

LEMMA ReconnectStep ==
    ASSUME NEW lasting, EditorsInv(lasting), Reconnect
    PROVE  EditorsInv(lasting)'
<1> USE DEF EditorsInv
<1>1. /\ record' = record /\ stored' = stored /\ unlocked' = unlocked
      /\ loaded' = loaded /\ client' = client /\ device' = device
      /\ calls' = calls /\ faults' = faults /\ previewed' = previewed
      /\ link' = TRUE /\ loaded /\ Free /\ Silent
  BY DEF Reconnect, profile
<1>2. EditorsTypeOK' /\ Exclusive' /\ TruthfulReport'
  BY <1>1, Quiet DEF EditorsTypeOK, Exclusive
<1>3. \A c \in Clients : LockedOn(client'[c], record', device', link')
  BY <1>1 DEF LockedOn, Free, Held
<1> QED  BY <1>1, <1>2, <1>3

LEMMA StoppedKept ==
    ASSUME NEW lasting, EditorsInv(lasting), Stopped
    PROVE  Kept
BY DEF EditorsInv, Stopped, HalfSaved, Kept, At

LEMMA HalfWrittenFacts ==
    ASSUME NEW lasting, EditorsInv(lasting), NEW dev \in HalfWritten
    PROVE  dev \in Profiles
<1>1. CASE dev = device
  BY <1>1 DEF EditorsInv, EditorsTypeOK
<1>2. CASE \E c \in Clients : At(c, "writing") /\ dev = Wrote(First(client[c].todo))
  <2>1. PICK c \in Clients : At(c, "writing") /\ dev = Wrote(First(client[c].todo))
    BY <1>2
  <2>2. record.desired \in Profiles /\ device \in Profiles
          /\ client[c].todo \in SUBSET Steps /\ client[c].todo # {}
    BY <2>1, Facts DEF At, LockedOn, Shape, Client
  <2> QED  BY <2>1, <2>2, FirstIsLeast, WroteFacts
<1>3. CASE \E c \in Clients : At(c, "setting") /\ dev = client[c].want
  BY <1>3, Facts DEF At, Shape, Client
<1> QED  BY <1>1, <1>2, <1>3 DEF HalfWritten

LEMMA StoppedStep ==
    ASSUME NEW lasting, EditorsInv(lasting), Stopped, calls' \in Nat, faults' \in Nat
    PROVE  EditorsInv(lasting)'
<1>1. /\ loaded /\ loaded' = FALSE /\ link' = FALSE /\ previewed' = None
      /\ record' = stored' /\ unlocked' = unlocked /\ Silent
      /\ client' = [c \in Clients |->
            IF client[c].at \in Held \cup {"queued"} THEN Again(c) ELSE client[c]]
  BY DEF Stopped, Interrupted
<1>2. device' \in Profiles
  BY HalfWrittenFacts DEF Stopped
<1>3. ASSUME NEW c \in Clients
      PROVE  /\ record' \in Records
             /\ client[c].revision <= record'.revision /\ BasedOn(client[c], record')
  BY <1>1, <1>3, StoppedKept, KeptBasis
<1>4. ASSUME NEW c \in Clients
      PROVE  /\ client'[c] \in Client /\ Shape(client'[c])
             /\ BasedOn(client'[c], record')
             /\ client'[c].at \notin Held \cup {"queued"}
             /\ LockedOn(client'[c], record', device', link')
             /\ client'[c].revision <= record'.revision
  <2>1. CASE client[c].at \in Held \cup {"queued"}
    <3>1. client'[c] = Again(c)
      BY <1>1, <2>1
    <3>2. record'.revision \in Nat
      BY <1>3, RecordFacts
    <3> QED  BY <1>3, <3>1, <3>2, AgainFacts
  <2>2. CASE client[c].at \notin Held \cup {"queued"}
    <3>1. client'[c] = client[c]
      BY <1>1, <2>2
    <3> QED  BY <1>3, <2>2, <3>1, Facts DEF LockedOn, Held
  <2> QED  BY <2>1, <2>2
<1>5. record' \in Records /\ client' \in [Clients -> Client]
  <2>1. record' \in Records
    <3>1. CASE record' = record
      BY <3>1 DEF EditorsInv, EditorsTypeOK
    <3>2. CASE \E c \in Clients : At(c, "saving") /\ record' = Saving(c)
      BY <3>2, SaveFacts
    <3> QED  BY <3>1, <3>2, StoppedKept DEF Kept
  <2>2. client' \in [Clients -> Client]
    BY <1>1, <1>4
  <2> QED  BY <2>1, <2>2
<1>6. EditorsTypeOK' /\ TruthfulReport'
  BY <1>1, <1>2, <1>5, Quiet DEF EditorsInv, EditorsTypeOK
<1>7. Exclusive'
  BY <1>1, <1>4 DEF Exclusive
<1> QED  BY <1>1, <1>4, <1>6, <1>7 DEF EditorsInv

LEMMA LoadStep ==
    ASSUME EditorsInv(TRUE), Load
    PROVE  EditorsInv(TRUE)'
<1> USE DEF EditorsInv
<1>1. /\ ~loaded /\ loaded' = TRUE /\ record' = record /\ stored' = stored
      /\ unlocked' \in BOOLEAN
      /\ client' = client /\ device' = device /\ link' = link
      /\ calls' = calls /\ faults' = faults /\ previewed' = previewed /\ Silent
  BY DEF Load
<1>2. EditorsTypeOK' /\ Exclusive' /\ TruthfulReport'
  BY <1>1, Quiet DEF EditorsTypeOK, Exclusive
<1> QED  BY <1>1, <1>2

-----------------------------------------------------------------------------
(* All steps.                                                              *)

\* What clients do in any state of the coordinator.
LEMMA ClientSteps ==
    ASSUME NEW lasting, EditorsInv(lasting), NEW c \in Clients,
           ClientActs(c) \/ LockGranted(c) \/ Holder(c)
    PROVE  EditorsInv(lasting)'
<1>1. CASE ClientActs(c)
  BY <1>1, CallSteps, EditorFormSteps DEF ClientActs, RepairActs
<1>2. CASE LockGranted(c)
  BY <1>2, LockSteps, SettingLockStep DEF LockGranted
<1>3. CASE Holder(c)
  BY <1>3, ReadForWriteStep, ReadForPreviewStep, ReadFailsStep, WriteSteps, SettingSteps,
     SaveSteps DEF Holder
<1> QED  BY <1>1, <1>2, <1>3

LEMMA DeviceSteps ==
    ASSUME NEW lasting, EditorsInv(lasting),
           PowerLoss \/ \E f \in Fields, v \in Values : DeviceChange(f, v)
    PROVE  EditorsInv(lasting)'
<1>1. /\ previewed \in Profiles \cup {None} /\ calls \in Nat /\ faults \in Nat
      /\ device \in Profiles /\ link \in BOOLEAN
  BY DEF EditorsInv, EditorsTypeOK
<1>2. CASE PowerLoss
  <2>1. Factory \in Profiles
    BY EditorsAssumption DEF Factory, Profiles
  <2>2. /\ UNCHANGED <<profile, loaded, client>> /\ Silent
        /\ previewed' = previewed /\ calls' \in Nat /\ faults' \in Nat
        /\ device' \in Profiles /\ link' = FALSE
    BY <1>1, <1>2, <2>1 DEF PowerLoss, Fault
  <2> QED  BY <1>1, <2>2, LinkStep
<1>3. CASE \E f \in Fields, v \in Values : DeviceChange(f, v)
  <2>1. PICK f \in Fields, v \in Values : DeviceChange(f, v)
    BY <1>3
  <2>2. [device EXCEPT ![f] = v] \in Profiles
    BY <1>1 DEF Profiles
  <2>3. /\ UNCHANGED <<profile, loaded, client>> /\ Silent
        /\ previewed' = previewed /\ calls' \in Nat /\ faults' \in Nat
        /\ device' \in Profiles /\ link' = FALSE
    BY <1>1, <2>1, <2>2 DEF DeviceChange, Fault
  <2> QED  BY <1>1, <2>3, LinkStep
<1> QED  BY <1>2, <1>3

LEMMA EditorsBegin ==
    ASSUME EditorsInit
    PROVE  EditorsInv(TRUE) /\ client = [c \in Clients |-> NoCall]
<1>1. Factory \in Profiles
  BY EditorsAssumption DEF Factory, Profiles
<1>2. record \in Records
  BY <1>1 DEF EditorsInit, Records, SavedRecord
<1>3. EditorsTypeOK
  BY <1>1, <1>2, NoCallFacts DEF EditorsInit, EditorsTypeOK
<1>4. \A c \in Clients :
          /\ Shape(client[c]) /\ BasedOn(client[c], record)
          /\ LockedOn(client[c], record, device, link)
          /\ client[c].revision <= record.revision
          /\ client[c].at \notin Held \cup {"queued"}
  BY <1>2, NoCallFacts DEF EditorsInit
<1> QED  BY <1>3, <1>4 DEF EditorsInit, EditorsInv, Exclusive, TruthfulReport

LEMMA EditorsInvStep ==
    ASSUME EditorsInv(TRUE), [EditorsNext]_editorVars
    PROVE  EditorsInv(TRUE)'
<1>1. CASE \E c \in Clients : ClientActs(c) \/ LockGranted(c) \/ Holder(c)
  BY <1>1, ClientSteps
<1>2. CASE PowerLoss \/ \E f \in Fields, v \in Values : DeviceChange(f, v)
  BY <1>2, DeviceSteps
<1>3. CASE Reconnect
  BY <1>3, ReconnectStep
<1>4. CASE Unload
  <2>1. calls' \in Nat /\ faults' \in Nat
    BY <1>4 DEF Unload, Fault, EditorsInv, EditorsTypeOK
  <2> QED  BY <1>4, <2>1, StoppedStep DEF Unload
<1>5. CASE Load
  BY <1>5, LoadStep
<1>6. CASE UNCHANGED editorVars
  <2> USE DEF EditorsInv, editorVars, profile
  <2>1. EditorsTypeOK' /\ Exclusive' /\ TruthfulReport'
    BY <1>6 DEF EditorsTypeOK, Exclusive, TruthfulReport
  <2> QED  BY <1>6, <2>1
<1> QED  BY <1>1, <1>2, <1>3, <1>4, <1>5, <1>6 DEF EditorsNext

-----------------------------------------------------------------------------
(* What a step may do to the saved profile and to the device.              *)

LEMMA SavesOnly ==
    ASSUME NEW lasting, EditorsInv(lasting), [EditorsNext]_editorVars
    PROVE  Kept
<1>1. ASSUME NEW c \in Clients, ClientActs(c) \/ LockGranted(c) \/ Holder(c)
      PROVE  Kept
  <2>1. CASE ClientActs(c)
    BY <2>1 DEF ClientActs, RepairActs, OpenEditor, ExportProfile, Fill, Confirm, Abandon,
                CallSetRoutine, CallRead, CallRestore, CallSetting, Calling, profile, Kept
  <2>2. CASE LockGranted(c)
    BY <2>2 DEF LockGranted, BeginEdit, BeginImport, BeginRead, BeginAccept, BeginRestore,
                BeginSetting, profile, Kept
  <2>3. CASE Holder(c)
    BY <2>3, <1>1 DEF Holder, ReadForWrite, ReadForPreview, ReadFails, WriteStep, Verify,
                WriteFails, SettingConfirmed, SettingFails, SavedEdit, SavedImport,
                SavedAccept, SavedSetting, SaveRecord, profile, Kept
  <2> QED  BY <1>1, <2>1, <2>2, <2>3
<1>2. CASE PowerLoss \/ Reconnect \/ \E f \in Fields, v \in Values : DeviceChange(f, v)
  BY <1>2 DEF PowerLoss, Reconnect, DeviceChange, profile, Kept
<1>3. CASE Unload
  BY <1>3, StoppedKept DEF Unload
<1>4. CASE Load
  BY <1>4 DEF Load, EditorsInv, Kept
<1>5. CASE UNCHANGED editorVars
  BY <1>5 DEF editorVars, profile, Kept
<1> QED  BY <1>1, <1>2, <1>3, <1>4, <1>5 DEF EditorsNext

\* NothingOverwritten, of one step.
SafeSave ==
    loaded /\ Complete /\ record'.desired # record.desired =>
        \E c \in Clients : At(c, "saving") /\ \A f \in Fields :
            record'.desired[f] # record.desired[f] =>
                /\ f \in client[c].fields
                /\ f \in InPlace \/ client[c].base[f] = record.desired[f]

LEMMA KeptIsSafe ==
    ASSUME NEW lasting, EditorsInv(lasting), Kept
    PROVE  SafeSave
<1> SUFFICES ASSUME loaded, Complete, record'.desired # record.desired
             PROVE  \E c \in Clients : At(c, "saving") /\ \A f \in Fields :
                       record'.desired[f] # record.desired[f] =>
                           /\ f \in client[c].fields
                           /\ f \in InPlace \/ client[c].base[f] = record.desired[f]
  BY DEF SafeSave
<1>1. PICK c \in Clients : At(c, "saving") /\ record' = Saving(c)
  BY DEF Kept
<1>2. \A f \in Fields \ client[c].fields : record'.desired[f] = record.desired[f]
  BY <1>1, SaveFacts
<1>3. CASE client[c].call = "set"
  BY <1>1, <1>2, <1>3, SaveFacts
<1>4. CASE client[c].call # "set"
  <2>1. client[c].revision = record.revision
    BY <1>1, <1>4, Facts DEF LockedOn, At
  <2>2. \A f \in Fields \ InPlace : client[c].base[f] = record.desired[f]
    BY <2>1, Facts DEF BasedOn, Complete
  <2> QED  BY <1>1, <1>2, <2>2
<1> QED  BY <1>3, <1>4

\* What the device can become while a client writes a restore over a link.
WriteOnly ==
    \A c \in Clients : At(c, "writing") /\ link =>
        device' \in {device, Factory, Wrote(First(client[c].todo))}

LEMMA OneWriter ==
    ASSUME NEW lasting, EditorsInv(lasting), [EditorsNext]_editorVars \/ Stopped
    PROVE  WriteOnly
<1> SUFFICES ASSUME NEW c \in Clients, At(c, "writing"), link
             PROVE  device' \in {device, Factory, Wrote(First(client[c].todo))}
  BY DEF WriteOnly
<1>1. ASSUME NEW d \in Clients, client[d].at \in Held
      PROVE  d = c /\ client[d].at = "writing"
  BY <1>1 DEF EditorsInv, Exclusive, At, Held
<1>2. ASSUME NEW d \in Clients, ClientActs(d) \/ LockGranted(d)
      PROVE  device' = device
  BY <1>2 DEF ClientActs, RepairActs, OpenEditor, ExportProfile, Fill, Confirm, Abandon,
              CallSetRoutine, CallRead, CallRestore, CallSetting, Calling,
              LockGranted, BeginEdit, BeginImport, BeginRead, BeginAccept, BeginRestore,
              BeginSetting
<1>3. ASSUME NEW d \in Clients, Holder(d)
      PROVE  device' \in {device, Wrote(First(client[c].todo))}
  <2>1. CASE WriteStep(d) \/ WriteFails(d)
    <3>1. d = c
      BY <1>1, <2>1 DEF WriteStep, WriteFails, At, Held
    <3> QED  BY <2>1, <3>1 DEF WriteStep, WriteFails
  <2>2. CASE SettingConfirmed(d) \/ SettingFails(d)
    BY <1>1, <2>2 DEF SettingConfirmed, SettingFails, At, Held
  <2>3. CASE /\ ~(WriteStep(d) \/ WriteFails(d))
             /\ ~(SettingConfirmed(d) \/ SettingFails(d))
    BY <1>3, <2>3 DEF Holder, ReadForWrite, ReadForPreview, ReadFails, Verify,
                SavedEdit, SavedImport, SavedAccept, SavedSetting, SaveRecord
  <2> QED  BY <2>1, <2>2, <2>3
<1>4. CASE PowerLoss \/ Reconnect \/ \E f \in Fields, v \in Values : DeviceChange(f, v)
  BY <1>4 DEF PowerLoss, Reconnect, DeviceChange
<1>5. CASE Stopped
  <2>1. device' \in HalfWritten
    BY <1>5 DEF Stopped
  <2>2. \A d \in Clients : At(d, "writing") => d = c
    BY <1>1 DEF At, Held
  <2>3. \A d \in Clients : ~At(d, "setting")
    BY <1>1 DEF At, Held
  <2> QED  BY <2>1, <2>2, <2>3 DEF HalfWritten
<1>6. CASE Load \/ UNCHANGED editorVars
  BY <1>6 DEF Load, editorVars
<1> QED  BY <1>2, <1>3, <1>4, <1>5, <1>6 DEF EditorsNext, Unload

\* FlagAfterPlan, of one step.
PlanFirst ==
    \A c \in Clients :
        At(c, "writing") /\ link /\ device'.mode # device.mode
            /\ device' # Factory
        => \/ device'.plan = record.desired.plan
           \/ "plan" \in client[c].lost

LEMMA WriterPutsPlanFirst ==
    ASSUME NEW lasting, EditorsInv(lasting), WriteOnly
    PROVE  PlanFirst
<1> SUFFICES ASSUME NEW c \in Clients, At(c, "writing"), link,
                    device'.mode # device.mode, device' # Factory
             PROVE  \/ device'.plan = record.desired.plan
                    \/ "plan" \in client[c].lost
  BY DEF PlanFirst
<1> DEFINE s == First(client[c].todo)
<1>1. /\ record.desired \in Profiles /\ device \in Profiles
      /\ client[c].todo \in SUBSET Steps /\ client[c].todo # {}
      /\ \A t \in Steps \ (client[c].todo \cup client[c].lost) :
            \A f \in StepFields(t) : device[f] = record.desired[f]
  BY Facts DEF At, LockedOn, Shape, Client
<1>2. s \in Steps /\ \A t \in client[c].todo : Rank(s) <= Rank(t)
  BY <1>1, FirstIsLeast
<1>3. device' = Wrote(s)
  BY DEF WriteOnly
<1>4. /\ "mode" \in Fields /\ "plan" \in Fields /\ "plan" \in Steps
      /\ StepFields("plan") = {"plan"}
  BY DEF Fields, Steps, StepFields
<1>5. "mode" \in StepFields(s) /\ device'.plan = IF "plan" \in StepFields(s)
                                                THEN record.desired.plan ELSE device.plan
  BY <1>1, <1>2, <1>3, <1>4, WroteFacts
<1>6. s = "mode"
  BY <1>2, <1>5 DEF StepFields, Steps, ClockFields
<1>7. "plan" \notin client[c].todo
  BY <1>2, <1>6 DEF Rank
<1> QED  BY <1>1, <1>4, <1>5, <1>7

-----------------------------------------------------------------------------

\* The editors alone, with an entry that is never deleted.
LEMMA EditorsInvariant == EditorsSpec => []EditorsInv(TRUE)
<1>1. EditorsInit => EditorsInv(TRUE)
  BY EditorsBegin
<1>2. EditorsInv(TRUE) /\ [EditorsNext]_editorVars => EditorsInv(TRUE)'
  BY EditorsInvStep
<1> QED  BY <1>1, <1>2, PTL DEF EditorsSpec

\* Types and truthful answers, for any number of clients.
THEOREM EditorsAnswer == EditorsSpec => [](EditorsTypeOK /\ TruthfulReport)
<1>1. EditorsInv(TRUE) => EditorsTypeOK /\ TruthfulReport
  BY DEF EditorsInv
<1> QED  BY <1>1, EditorsInvariant, PTL

\* No save overwrites what its client has not seen.
THEOREM EditorsOverwriteNothing == EditorsSpec => NothingOverwritten
<1>1. EditorsInv(TRUE) /\ [EditorsNext]_editorVars => [SafeSave]_editorVars
  BY SavesOnly, KeptIsSafe
<1> QED  BY <1>1, EditorsInvariant, PTL DEF EditorsSpec, NothingOverwritten, SafeSave

\* A restore switches a mode only over the saved weekly plan, as far as the device
\* applies what it acknowledges.
THEOREM EditorsFlagAfterPlan == EditorsSpec => FlagAfterPlan
<1>1. EditorsInv(TRUE) /\ [EditorsNext]_editorVars => [PlanFirst]_editorVars
  BY OneWriter, WriterPutsPlanFirst
<1> QED  BY <1>1, EditorsInvariant, PTL DEF EditorsSpec, FlagAfterPlan, PlanFirst
=============================================================================

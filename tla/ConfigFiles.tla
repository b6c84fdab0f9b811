----------------------------- MODULE ConfigFiles -----------------------------
(* The two configuration files of the hub, settings.json and models.json      *)
(* (rau/providers/registry.py).  Every reader reads the file again; a change  *)
(* is a request that loads the whole object, sets its own fields and saves    *)
(* the whole object back (rau/hub/server.py, permissions.py, language.py,     *)
(* skills/runtime.py).  The lock covers one load or one save, never the pair. *)
(* A missing field gets its default; models.json is validated, and moved      *)
(* aside when it does not parse or validate.                                  *)
EXTENDS Integers, FiniteSets

CONSTANTS
    Writers,    \* requests that change the configuration concurrently
    MaxSaves,   \* bound: requests made
    MaxFaults,  \* bound: reads, moves and writes of a file that fail
    MaxHand     \* bound: times a person edits a file by hand

Files == {"settings", "models"}
Fields == [f \in Files |->
    IF f = "settings" THEN {"permissions", "language", "resource_profile"} ELSE {"face", "tts"}]

\* The values a field takes: 0 is the default, 9 one that does not validate.
Values == {0, 1, 9}
Absent == [kind |-> "absent"]
Broken == [kind |-> "broken"]
Object(v) == [kind |-> "object", has |-> v]
Default(f) == [k \in Fields[f] |-> 0]

VARIABLES
    file,    \* file -> Absent, Broken or an object; a field left out is not in its domain
    aside,   \* files whose unreadable text was moved aside and kept
    pc,      \* per writer: "idle", "load", "save"
    want,    \* per writer: [file, field, value] it was asked to set
    copy,    \* per writer: the object it loaded
    chosen,  \* per file: the fields that were set and acknowledged, with their values
    saves, faults, hand

vars == <<file, aside, pc, want, copy, chosen, saves, faults, hand>>

NoWant == [file |-> "settings", field |-> "language", value |-> 0]

Nothing == [k \in {} |-> 0]

Init ==
    /\ file = [f \in Files |-> Absent]
    /\ aside = {}
    /\ pc = [w \in Writers |-> "idle"]
    /\ want = [w \in Writers |-> NoWant]
    /\ copy = [w \in Writers |-> Nothing]
    /\ chosen = [f \in Files |-> Nothing]
    /\ saves = 0 /\ faults = 0 /\ hand = 0

-----------------------------------------------------------------------------

Valid(f, v) == f = "models" => \A k \in DOMAIN v : v[k] # 9

\* The fields of a loaded object, the missing ones at their defaults.
Filled(f, v) == [k \in Fields[f] |-> IF k \in DOMAIN v THEN v[k] ELSE 0]

\* A settings value that means nothing is read as the default.
Normal(f, v) == [k \in DOMAIN v |-> IF f = "settings" /\ v[k] = 9 THEN 0 ELSE v[k]]

\* Slip: the load keeps only the field it is asked for.
LoadsNothing(f) == Default(f)

\* What a load of the file returns.
Loaded(f) ==
    IF file[f].kind = "object" /\ Valid(f, file[f].has)
    THEN Normal(f, Filled(f, file[f].has))
    ELSE Default(f)

Unfit(f) ==
    file[f].kind = "broken" \/ (file[f].kind = "object" /\ ~Valid(f, file[f].has))

Request(w) ==
    /\ pc[w] = "idle" /\ saves < MaxSaves
    /\ \E f \in Files, v \in Values : \E k \in Fields[f] :
         want' = [want EXCEPT ![w] = [file |-> f, field |-> k, value |-> v]]
    /\ pc' = [pc EXCEPT ![w] = "load"]
    /\ saves' = saves + 1
    /\ UNCHANGED <<file, aside, copy, chosen, faults, hand>>

Proceed(w, v) ==
    /\ copy' = [copy EXCEPT ![w] = v]
    /\ pc' = [pc EXCEPT ![w] = "save"]
    /\ UNCHANGED <<want, chosen, saves, hand>>

\* load_settings reads the file and never writes it.
LoadSettings(w) ==
    /\ pc[w] = "load" /\ want[w].file = "settings"
    /\ Proceed(w, Loaded("settings"))
    /\ UNCHANGED <<file, aside, faults>>

\* load_models moves an unfit file aside (the move may fail), fills in what is
\* missing, and saves what it repaired.
LoadModels(w) ==
    /\ pc[w] = "load" /\ want[w].file = "models"
    /\ \/ /\ aside' = IF Unfit("models") THEN aside \cup {"models"} ELSE aside
          /\ UNCHANGED faults
       \/ /\ Unfit("models") /\ faults < MaxFaults
          /\ faults' = faults + 1
          /\ UNCHANGED aside
    /\ file' = [file EXCEPT !["models"] = Object(Loaded("models"))]
    /\ Proceed(w, Loaded("models"))

\* The file cannot be read this time (permission, descriptors, disk): both
\* loads answer with the defaults and leave the file as it is.
LoadFails(w) ==
    /\ pc[w] = "load" /\ faults < MaxFaults
    /\ file[want[w].file].kind # "absent"
    /\ faults' = faults + 1
    /\ Proceed(w, Default(want[w].file))
    /\ UNCHANGED <<file, aside>>

\* An unknown language is taken as the default; any other bad value stays bad.
Wanted(w) == IF want[w].field = "language" /\ want[w].value = 9 THEN 0 ELSE want[w].value

Changed(w) == [copy[w] EXCEPT ![want[w].field] = Wanted(w)]

\* Bad input is refused before anything is written.
Refuse(w) ==
    /\ pc[w] = "save" /\ Wanted(w) = 9
    /\ pc' = [pc EXCEPT ![w] = "idle"]
    /\ UNCHANGED <<file, aside, want, copy, chosen, saves, faults, hand>>

Put(k, v, m) == [j \in (DOMAIN m) \cup {k} |-> IF j = k THEN v ELSE m[j]]

\* save_settings, save_models: the whole object goes to a new file that then
\* replaces the old one; the request is acknowledged.
Save(w) ==
    /\ pc[w] = "save" /\ Wanted(w) # 9
    /\ file' = [file EXCEPT ![want[w].file] = Object(Changed(w))]
    /\ chosen' = [chosen EXCEPT ![want[w].file] =
                    Put(want[w].field, Wanted(w), @)]
    /\ pc' = [pc EXCEPT ![w] = "idle"]
    /\ UNCHANGED <<aside, want, copy, saves, faults, hand>>

\* The write fails before the replacement: the request fails, the file stays.
SaveFails(w) ==
    /\ pc[w] = "save" /\ Wanted(w) # 9 /\ faults < MaxFaults
    /\ faults' = faults + 1
    /\ pc' = [pc EXCEPT ![w] = "idle"]
    /\ UNCHANGED <<file, aside, want, copy, chosen, saves, hand>>

\* Slip: the file is written in place.
InPlace(f) == Broken

\* What a crash in the middle of a save leaves of the file.
Torn(f) == file[f]

\* The process dies, possibly in the middle of a save.
Crash ==
    /\ \E w \in Writers : pc[w] # "idle"
    /\ file' = [f \in Files |->
                  IF \E w \in Writers : pc[w] = "save" /\ want[w].file = f THEN Torn(f) ELSE file[f]]
    /\ pc' = [w \in Writers |-> "idle"]
    /\ UNCHANGED <<aside, want, copy, chosen, saves, faults, hand>>

\* A person edits a file: an older version of it, a value that does not
\* validate, or text that does not parse.
EditByHand(f) ==
    /\ hand < MaxHand
    /\ hand' = hand + 1
    /\ \/ file' = [file EXCEPT ![f] = Broken]
       \/ \E K \in SUBSET Fields[f] : \E v \in [K -> Values] :
            file' = [file EXCEPT ![f] = Object(v)]
    /\ chosen' = [chosen EXCEPT ![f] = Nothing]
    /\ UNCHANGED <<aside, pc, want, copy, saves, faults>>

Next ==
    \/ \E w \in Writers :
         \/ Request(w) \/ LoadSettings(w) \/ LoadModels(w) \/ LoadFails(w)
         \/ Refuse(w) \/ Save(w) \/ SaveFails(w)
    \/ Crash
    \/ \E f \in Files : EditByHand(f)

Spec == Init /\ [][Next]_vars

-----------------------------------------------------------------------------

TypeOK ==
    /\ \A f \in Files : file[f].kind \in {"absent", "broken", "object"}
    /\ pc \in [Writers -> {"idle", "load", "save"}]
    /\ \A f \in Files : DOMAIN chosen[f] \subseteq Fields[f]
    /\ saves \in 0..MaxSaves /\ faults \in 0..MaxFaults /\ hand \in 0..MaxHand

(* What was set and acknowledged is what the next load returns, until someone   *)
(* sets it again: whatever other field was set since, and across a crash in     *)
(* the middle of a save.  Holds when requests do not overlap and no read fails. *)
ChoiceStands ==
    \A f \in Files : \A k \in DOMAIN chosen[f] : Loaded(f)[k] = chosen[f][k]
=============================================================================

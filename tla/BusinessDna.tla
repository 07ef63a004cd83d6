----------------------------- MODULE BusinessDna -----------------------------
(***************************************************************************)
(* The Business DNA of the organization: one row, saved as a whole or in   *)
(* part, together with the columns of the organization that its form also  *)
(* carries; and the list of core values.  A save is modelled statement by  *)
(* statement up to its commit: the first one may lose the race for the     *)
(* only row there can be, and later ones write a row they loaded before.   *)
(***************************************************************************)
EXTENDS Integers, FiniteSets

CONSTANTS
  DnaFields, OrgFields,   \* columns of business_dna, and of organizations
  Texts,                  \* what may be written in a field
  Forms,                  \* the bodies of PUT /business-dna: only the fields that were set
  CoreValues,             \* the pool of core value ids
  Editors,                \* concurrent requests
  Unwritten,              \* null, no row yet, an idle request
  Removed                 \* a core value that was deleted

VARIABLES
  dna,         \* the row of business_dna
  org,         \* the row of organizations
  coreValue,   \* business_dna_core_values
  editor       \* what each request has read and sent

dnaVars == <<dna, org, coreValue, editor>>

BusinessDNA == [DnaFields -> Texts \cup {Unwritten}]

ASSUME DnaAssumption ==
  /\ DnaFields # {} /\ DnaFields \cap OrgFields = {}
  /\ \A form \in Forms :
       /\ DOMAIN form \subseteq DnaFields \cup OrgFields
       /\ \A f \in DOMAIN form : form[f] \in Texts \cup {Unwritten}
  /\ Unwritten \notin BusinessDNA /\ Removed \notin Texts \cup {Unwritten}

DnaTypeOK ==
  /\ dna \in BusinessDNA \cup {Unwritten}
  /\ org \in [OrgFields -> Texts \cup {Unwritten}]
  /\ coreValue \in [CoreValues -> Texts \cup {Unwritten, Removed}]

DnaInit ==
  /\ dna = Unwritten
  /\ org = [f \in OrgFields |-> Unwritten]
  /\ coreValue = [c \in CoreValues |-> Unwritten]
  /\ editor = [s \in Editors |-> Unwritten]

Edits(s, pc) == editor[s] # Unwritten /\ editor[s].pc = pc
Saves(s)     == editor[s] # Unwritten /\ editor[s].pc # "core value"

\* Request s goes on at pc, having read seen and sent the columns in sent.
GoesOn(s, pc, seen, sent) ==
  editor' = [editor EXCEPT ![s] = [@ EXCEPT !.pc = pc, !.seen = seen, !.sent = sent]]

\* The columns of a loaded row that a form changes: all that the UPDATE sends.
Differing(form, row) ==
  LET D == {f \in DOMAIN form \cap DOMAIN row : form[f] # row[f]} IN [f \in D |-> form[f]]

\* Another transaction has written a row of this table and has not committed.
HeldByAnother(s, columns) ==
  \E r \in Editors \ {s} : Saves(r) /\ DOMAIN editor[r].sent \cap columns # {}

(***************************************************************************)
(* PUT /business-dna                                                       *)
(***************************************************************************)
BeginUpsert(s, form) ==
  /\ editor[s] = Unwritten
  /\ editor' = [editor EXCEPT ![s] =
       [pc |-> IF dna = Unwritten THEN "insert" ELSE "update",
        form |-> form, seen |-> dna, seenOrg |-> org, sent |-> << >>]]
  /\ UNCHANGED <<dna, org, coreValue>>

\* Mutant: whoever loses the race leaves it at the row that is there now.
InsertDnaOrGiveUp(s) ==
  /\ Edits(s, "insert") /\ ~HeldByAnother(s, DnaFields)
  /\ LET form == editor[s].form
         row  == [f \in DnaFields |-> IF f \in DOMAIN form THEN form[f] ELSE Unwritten]
     IN  GoesOn(s, "organization", dna, IF dna = Unwritten THEN row ELSE << >>)
  /\ UNCHANGED <<dna, org, coreValue>>

\* The INSERT waits for another one that has not committed (organization_id is
\* unique); if the row is there it is undone, to the savepoint only, and the request
\* goes on as an update of the row it now reads.
InsertDna(s) ==
  /\ Edits(s, "insert") /\ ~HeldByAnother(s, DnaFields)
  /\ LET form == editor[s].form
         row  == [f \in DnaFields |-> IF f \in DOMAIN form THEN form[f] ELSE Unwritten]
     IN  IF dna = Unwritten
           THEN GoesOn(s, "organization", dna, row)
           ELSE GoesOn(s, "update", dna, << >>)
  /\ UNCHANGED <<dna, org, coreValue>>

\* update_business_dna, on the row as it was loaded.
UpdateDna(s) ==
  /\ Edits(s, "update")
  /\ LET changes == Differing(editor[s].form, editor[s].seen) IN
       /\ changes # << >> => ~HeldByAnother(s, DnaFields)
       /\ GoesOn(s, "organization", editor[s].seen, changes)
  /\ UNCHANGED <<dna, org, coreValue>>

\* "Organization name is written last, deliberately": read now, written after that.
ReadOrganization(s) ==
  /\ Edits(s, "organization")
  /\ editor' = [editor EXCEPT ![s].seenOrg = org, ![s].pc =
       IF DOMAIN editor[s].form \cap OrgFields = {} THEN "commit" ELSE "name"]
  /\ UNCHANGED <<dna, org, coreValue>>

UpdateOrganization(s) ==
  /\ Edits(s, "name")
  /\ LET changes == Differing(editor[s].form, editor[s].seenOrg)
         sent    == editor[s].sent
     IN  /\ changes # << >> => ~HeldByAnother(s, OrgFields)
         /\ GoesOn(s, "commit", editor[s].seen,
                   [f \in DOMAIN changes \cup DOMAIN sent |->
                      IF f \in DOMAIN changes THEN changes[f] ELSE sent[f]])
  /\ UNCHANGED <<dna, org, coreValue>>

\* The row, with what this request sent.
Written(s, columns, row) ==
  [f \in columns |-> IF f \in DOMAIN editor[s].sent THEN editor[s].sent[f] ELSE row[f]]

CommitUpsert(s) ==
  /\ Edits(s, "commit")
  /\ dna' = Written(s, DnaFields, dna)
  /\ org' = Written(s, OrgFields, org)
  /\ editor' = [editor EXCEPT ![s] = Unwritten]
  /\ UNCHANGED coreValue

AbandonEditor(s) ==
  /\ editor[s] # Unwritten
  /\ editor' = [editor EXCEPT ![s] = Unwritten]
  /\ UNCHANGED <<dna, org, coreValue>>

(***************************************************************************)
(* Core values                                                             *)
(***************************************************************************)
\* create_core_value: there is a Business DNA to belong to; it is never deleted.
CreateCoreValue(c, text) ==
  /\ dna # Unwritten /\ coreValue[c] = Unwritten
  /\ coreValue' = [coreValue EXCEPT ![c] = text]
  /\ UNCHANGED <<dna, org, editor>>

BeginUpdateCoreValue(s, c, text) ==
  /\ editor[s] = Unwritten /\ coreValue[c] \in Texts
  /\ editor' = [editor EXCEPT ![s] =
       [pc |-> "core value", c |-> c, text |-> text, seen |-> coreValue[c]]]
  /\ UNCHANGED <<dna, org, coreValue>>

\* An UPDATE that finds no row raises; nothing is sent for the text it already had.
FinishUpdateCoreValue(s) ==
  /\ Edits(s, "core value")
  /\ LET e == editor[s] IN
       coreValue' = IF coreValue[e.c] = Removed \/ e.text = e.seen THEN coreValue
                    ELSE [coreValue EXCEPT ![e.c] = e.text]
  /\ editor' = [editor EXCEPT ![s] = Unwritten]
  /\ UNCHANGED <<dna, org>>

\* "A genuine hard delete": nothing brings the row back.
DeleteCoreValue(c) ==
  /\ coreValue[c] \in Texts
  /\ coreValue' = [coreValue EXCEPT ![c] = Removed]
  /\ UNCHANGED <<dna, org, editor>>

DnaNext ==
  \/ \E s \in Editors :
       \/ \E form \in Forms : BeginUpsert(s, form)
       \/ InsertDna(s) \/ UpdateDna(s) \/ ReadOrganization(s) \/ UpdateOrganization(s)
       \/ CommitUpsert(s) \/ AbandonEditor(s) \/ FinishUpdateCoreValue(s)
       \/ \E c \in CoreValues, text \in Texts : BeginUpdateCoreValue(s, c, text)
  \/ \E c \in CoreValues :
       (\E text \in Texts : CreateCoreValue(c, text)) \/ DeleteCoreValue(c)

DnaSpec == DnaInit /\ [][DnaNext]_dnaVars

\* A save that is answered with success shows: its fields have their values, also
\* when it lost the race to be the first; and it touches no field that its form did
\* not carry, whatever was saved meanwhile.  The one exception is a field that the
\* form left as the request had found it: nothing is sent for it, and what somebody
\* else saved in between stands.
AcceptedSavesShow ==
  [][\A s \in Editors : CommitUpsert(s) =>
       LET e == editor[s] IN
       /\ \A f \in DnaFields :
            IF f \in DOMAIN e.form
              THEN dna'[f] = e.form[f] \/ (e.seen # Unwritten /\ e.form[f] = e.seen[f])
              ELSE dna'[f] = IF dna = Unwritten THEN Unwritten ELSE dna[f]
       /\ \A f \in OrgFields :
            IF f \in DOMAIN e.form
              THEN org'[f] = e.form[f] \/ e.form[f] = e.seenOrg[f]
              ELSE org'[f] = org[f]]_dnaVars

=============================================================================

---------------------------- MODULE UserEditing -----------------------------
(***************************************************************************)
(* UsersPage: an administrator edits and suspends an account through       *)
(* dialogs filled from a list fetched earlier, while another administrator *)
(* changes the same account.  "Guardar cambios" is a chain of requests,    *)
(* one per group of fields that differs from the list, each of which may   *)
(* fail; a change of role or password of one's own account ends the        *)
(* session in the middle of the chain.                                     *)
(***************************************************************************)
EXTENDS Naturals

CONSTANTS Fields,     \* groups of fields of the dialog: "profile", "role", "plants"
          Values      \* the values a field may take

Order == [profile |-> 1, role |-> 2, plants |-> 3, password |-> 4]   \* of the requests
All == 0

(* What the constants must be: the role is a field, 0 is no value. *)
EditingAssumption == /\ "role" \in Fields /\ Fields \subseteq DOMAIN Order \ {"password"}
                     /\ Values # {} /\ Values \subseteq Nat \ {All}

VARIABLES row,      \* the account: its fields, whether it is active, its password
          own,      \* the account edited is the administrator's own
          signedIn, \* the session of this browser is alive
          filter,   \* role the list is filtered by, 0 for all
          list,     \* the row as last fetched, or none when filtered out
          form,     \* the edit dialog
          chain,    \* the groups that the save under way has still to send
          info,     \* what the dialog says after a save
          confirm,  \* the suspend dialog: the status it was opened with
          exact,    \* the save started from the true row, and nothing changed it or the form since
          foreign,  \* fields others changed since the copy the form was filled from
          suspended \* the last toggle made the status its dialog announced

vars == <<row, own, signedIn, filter, list, form, chain, info, confirm, exact, foreign, suspended>>

None == [known |-> FALSE]
Closed == [open |-> FALSE]
Rows == [Fields -> Values]

Known == list.known
Idle == chain = {} /\ signedIn

Init == /\ \E v \in Values : row = [fields |-> [f \in Fields |-> v], active |-> TRUE]
        /\ own \in BOOLEAN
        /\ signedIn = TRUE
        /\ filter = All
        /\ list = None
        /\ form = Closed
        /\ chain = {}
        /\ info = "none"
        /\ confirm = Closed
        /\ exact = FALSE
        /\ foreign = {}
        /\ suspended = TRUE

(* The first fetch, and the one each saved mutation asks for.              *)
Refetch ==
    /\ signedIn
    /\ list' = IF filter \in {All, row.fields["role"]}
               THEN [known |-> TRUE, fields |-> row.fields, active |-> row.active] ELSE None
    /\ UNCHANGED <<row, own, signedIn, filter, form, chain, info, confirm, exact, foreign, suspended>>

(* Another role of the list is another query: nothing is shown until it    *)
(* answers.                                                                *)
Filter ==
    /\ Idle /\ ~form.open /\ ~confirm.open
    /\ filter' \in (Values \cup {All}) \ {filter}
    /\ list' = None
    /\ UNCHANGED <<row, own, signedIn, form, chain, info, confirm, exact, foreign, suspended>>

-----------------------------------------------------------------------------
(* The edit dialog. *)

\* Mutant of OpenEdit: the role is not taken from the row.
OpenEditWithDefaults ==
    /\ Idle /\ Known /\ ~form.open /\ ~confirm.open
    /\ form' = [open |-> TRUE, fields |-> [list.fields EXCEPT !["role"] = CHOOSE v \in Values : TRUE],
                password |-> FALSE, touched |-> {}]
    /\ info' = "none"
    /\ foreign' = {f \in Fields : list.fields[f] # row.fields[f]}
    /\ UNCHANGED <<row, own, signedIn, filter, list, chain, confirm, exact, suspended>>

OpenEdit ==
    /\ Idle /\ Known /\ ~form.open /\ ~confirm.open
    /\ form' = [open |-> TRUE, fields |-> list.fields, password |-> FALSE, touched |-> {}]
    /\ info' = "none"
    /\ foreign' = {f \in Fields : list.fields[f] # row.fields[f]}
    /\ UNCHANGED <<row, own, signedIn, filter, list, chain, confirm, exact, suspended>>

Type ==
    /\ Idle /\ form.open
    /\ \/ \E f \in Fields, v \in Values :
            form' = [form EXCEPT !.fields[f] = v, !.touched = @ \cup {f}]
       \/ form' = [form EXCEPT !.password = TRUE]
    /\ exact' = FALSE
    /\ UNCHANGED <<row, own, signedIn, filter, list, chain, info, confirm, foreign, suspended>>

(* onSubmit compares the form with the row of the list at that render; a   *)
(* row the filter hides compares different in every field.                 *)
Changed(f) == IF f = "password" THEN form.password
              ELSE ~Known \/ form.fields[f] # list.fields[f]

Submit ==
    /\ Idle /\ form.open
    /\ chain' = {f \in Fields \cup {"password"} : Changed(f)}
    /\ info' = IF chain' = {} THEN "nothing changed" ELSE "none"
    /\ exact' = (Known /\ list.fields = row.fields)
    /\ UNCHANGED <<row, own, signedIn, filter, list, form, confirm, foreign, suspended>>

(* The row keeps no more of the password than its change.                  *)
Put(f) == IF f = "password" THEN row ELSE [row EXCEPT !.fields[f] = form.fields[f]]

(* The request whose turn it is. *)
First(f) == f \in chain /\ \A g \in chain : Order[f] <= Order[g]

(* One request of the chain is answered.  Role and password raise the      *)
(* version of the account: on one's own account the session is over.       *)
Save ==
    /\ signedIn
    /\ \E f \in chain :
         /\ First(f)
         /\ row' = Put(f)
         /\ signedIn' = ~(own /\ f \in {"role", "password"})
         /\ chain' = chain \ {f}
         /\ info' = IF chain' = {} THEN "saved" ELSE info
         /\ form' = IF f = "password" THEN [form EXCEPT !.password = FALSE] ELSE form
    /\ UNCHANGED <<own, filter, list, confirm, exact, foreign, suspended>>

\* Mutant of SaveFails: the chain goes on after a failed request.
SaveGoesOn ==
    /\ \E f \in chain : First(f) /\ chain' = chain \ {f}
    /\ info' = IF chain' = {} THEN "saved" ELSE info
    /\ UNCHANGED <<row, own, signedIn, filter, list, form, confirm, exact, foreign, suspended>>

(* A refused or lost request ends the chain; what was saved stays saved.   *)
SaveFails ==
    /\ chain # {}
    /\ chain' = {}
    /\ UNCHANGED <<row, own, signedIn, filter, list, form, info, confirm, exact, foreign, suspended>>

CloseModal ==
    /\ chain = {} /\ form.open
    /\ form' = Closed
    /\ info' = "none" /\ exact' = FALSE /\ foreign' = {}
    /\ UNCHANGED <<row, own, signedIn, filter, list, chain, confirm, suspended>>

-----------------------------------------------------------------------------
(* The suspend dialog. *)

AskToggle ==
    /\ Idle /\ Known /\ ~form.open /\ ~confirm.open
    /\ confirm' = [open |-> TRUE, active |-> list.active]
    /\ suspended' = TRUE
    /\ UNCHANGED <<row, own, signedIn, filter, list, form, chain, info, exact, foreign>>

(* toggleActive inverts whatever the row holds by then.                    *)
Toggle ==
    /\ Idle /\ confirm.open
    /\ row' = [row EXCEPT !.active = ~@]
    /\ confirm' = Closed
    /\ signedIn' = ~own
    /\ suspended' = (confirm.active = row.active)
    /\ UNCHANGED <<own, filter, list, form, chain, info, exact, foreign>>

CancelToggle ==
    /\ confirm.open
    /\ confirm' = Closed
    /\ UNCHANGED <<row, own, signedIn, filter, list, form, chain, info, exact, foreign, suspended>>

(* Another administrator saves a field, or suspends or activates.          *)
Other ==
    /\ \/ \E f \in Fields : \E v \in Values \ {row.fields[f]} :
            row' = [row EXCEPT !.fields[f] = v]
                         /\ foreign' = IF form.open THEN foreign \cup {f} ELSE {}
       \/ row' = [row EXCEPT !.active = ~@] /\ UNCHANGED foreign
    /\ exact' = FALSE
    /\ signedIn' = (signedIn /\ ~(own /\ (row'.active # row.active \/ row'.fields["role"] # row.fields["role"])))
    /\ UNCHANGED <<own, filter, list, form, chain, info, confirm, suspended>>

(* Whoever lost the session signs in again on a fresh page.                *)
SignIn ==
    /\ ~signedIn /\ row.active
    /\ signedIn' = TRUE
    /\ list' = None /\ form' = Closed /\ confirm' = Closed
    /\ chain' = {} /\ info' = "none" /\ filter' = All
    /\ exact' = FALSE /\ foreign' = {} /\ suspended' = TRUE
    /\ UNCHANGED <<row, own>>

Next == \/ Refetch \/ Filter \/ OpenEdit \/ Type \/ Submit \/ Save \/ SaveFails \/ CloseModal
        \/ AskToggle \/ Toggle \/ CancelToggle \/ Other \/ SignIn

Spec == Init /\ [][Next]_vars

-----------------------------------------------------------------------------
(* Type invariant of the account and of the page.                          *)
EditingTypeOK ==
    /\ row \in [fields : Rows, active : BOOLEAN]
    /\ list \in {None} \cup [known : {TRUE}, fields : Rows, active : BOOLEAN]
    /\ form \in {Closed} \cup [open : {TRUE}, fields : Rows, password : BOOLEAN,
                              touched : SUBSET Fields]
    /\ chain \subseteq Fields \cup {"password"}

(* "Cambios guardados" is true: if the save started from the true row and  *)
(* nobody else changed it, the account holds the form, however many        *)
(* requests it took.                                                       *)
SavedAsShown == info = "saved" /\ exact => row.fields = form.fields

(* A save changes a field the administrator did not touch only when        *)
(* someone else changed it after the list was fetched.                     *)
SavesWhatWasTyped ==
    \A f \in chain \ chain' :
        row' # row => f \in form.touched \cup foreign \cup {"password"}
UntouchedKept == [][SavesWhatWasTyped]_vars

(* The dialog's words: confirming "¿Suspender a ...? No podrá ingresar al  *)
(* sistema." leaves the account suspended, and "Activar" leaves it active. *)
ToggleAsAnnounced == suspended
=============================================================================

------------------------------ MODULE AddressForm ------------------------------
(***************************************************************************)
(* The buyer's page of addresses: pages/my/addresses.vue of frontend/src   *)
(* (AddressBook has the handlers, cut at every await; here each is one     *)
(* step).  An address is added or edited in a dialog, and nothing on the   *)
(* page is disabled while a request is on its way.                         *)
(* Bound: an address is a text and whether it is the default; the form is  *)
(* filled in well, so that onSave sends it.  Trips requests at a time; the *)
(* addresses that a dialog has made are counted up to two.                 *)
(***************************************************************************)
EXTENDS Naturals

CONSTANTS Places, Texts, Trips, NoPlace, EmptyText

\* The fields of the dialog.
Row == [text : Texts \cup {EmptyText}, def : BOOLEAN]
ASSUME AddressFormAssumption ==
  /\ Trips \subseteq Nat /\ Trips # {}
  /\ "new" \notin Places /\ NoPlace \notin Row \cup Places \cup {"new"}

VARIABLES
  saved,       \* backend: the text and the default mark of each address, or NoPlace
  addresses, addressesLoading,     \* the list on the page
  editing, addressForm,            \* the dialog: an address, "new" or NoPlace; and its fields,
                                   \* which the next dialog fills again
  trips,       \* requests on their way
  added, again,   \* history: addresses that the dialog for a new one has made; whether it was
                  \* saved again before, or without, an answer
  missed       \* history: a request failed, or a list was asked for while another was on its way

addressPage == <<addresses, addressesLoading, editing, addressForm>>
addressFormVars == <<saved, addressPage, trips, added, again, missed>>

Known == {a \in Places : saved[a] # NoPlace}
NoTrip == [kind |-> "free"]
Travels(c) == \E t \in Trips : /\ trips[t] = NoTrip /\ \A s \in Trips : trips[s] = NoTrip => t <= s
                               /\ trips' = [trips EXCEPT ![t] = c]
Loads == [kind |-> "load"]
Listing == \E t \in Trips : trips[t].kind \in {"load", "listed"}
Blank == [text |-> EmptyText, def |-> FALSE]

(***************************************************************************)
(* The backend, as far as the page depends on it.                          *)
(***************************************************************************)
\* The first address is the default one.
Stored(a, row) ==
  LET new == IF Known \subseteq {a} /\ a \notin Known THEN [row EXCEPT !.def = TRUE] ELSE row
  IN  [p \in Places |-> IF p = a THEN new
                        ELSE IF p \in Known /\ row.def THEN [saved[p] EXCEPT !.def = FALSE]
                        ELSE saved[p]]
ListAddresses(t) ==
  /\ trips[t] = Loads
  /\ trips' = [trips EXCEPT ![t] = [kind |-> "listed", rows |-> [a \in Known |-> saved[a]]]]
  /\ UNCHANGED <<saved, added>>
CreateAddress(t) ==
  /\ trips[t].kind = "create"
  /\ \E a \in Places \ Known : saved' = Stored(a, trips[t].row)
  /\ added' = IF trips[t].mine /\ added < 2 THEN added + 1 ELSE added
  /\ trips' = [trips EXCEPT ![t].kind = "saved"]
UpdateAddress(t) ==
  /\ trips[t].kind = "update" /\ trips[t].place \in Known
  /\ saved' = Stored(trips[t].place, trips[t].row)
  /\ trips' = [trips EXCEPT ![t].kind = "saved"]
  /\ UNCHANGED added
\* The most recent address becomes the default one: any.
RemoveAddress(t) ==
  LET gone == trips[t].place
      rest == Known \ {gone}
  IN  /\ trips[t].kind = "delete" /\ gone \in Known
      /\ \E next \in (IF saved[gone].def /\ rest # {} THEN rest ELSE {NoPlace}) :
           saved' = [p \in Places |-> IF p = gone THEN NoPlace
                                      ELSE IF p = next THEN [saved[p] EXCEPT !.def = TRUE]
                                      ELSE saved[p]]
      /\ trips' = [trips EXCEPT ![t].kind = "changed"]
      /\ UNCHANGED added
\* The ValidationPipe refuses a body with a field that UpsertAddressDto does not have; that
\* of onSetDefault has id, userId and the two times.
ValidationRefuses(t) ==
  /\ trips[t].kind = "default"
  /\ trips' = [trips EXCEPT ![t].kind = "refused"]
  /\ UNCHANGED <<saved, added>>
Serves(t) ==
  /\ \/ ListAddresses(t) \/ CreateAddress(t) \/ UpdateAddress(t) \/ RemoveAddress(t)
     \/ ValidationRefuses(t)
  /\ UNCHANGED <<addressPage, again, missed>>

(***************************************************************************)
(* The page.                                                               *)
(***************************************************************************)
OnAddressPage == UNCHANGED <<saved, addresses, addressesLoading, missed>>
ShowAddresses ==
  /\ addressesLoading' = TRUE /\ Travels(Loads)
  /\ missed' = (missed \/ Listing)
  /\ UNCHANGED <<saved, addresses, editing, addressForm, added, again>>
AddressesAnswered(t) ==
  /\ trips[t].kind = "listed" /\ trips' = [trips EXCEPT ![t] = NoTrip]
  /\ addresses' = trips[t].rows /\ addressesLoading' = FALSE
  /\ UNCHANGED <<saved, editing, addressForm, added, again, missed>>
\* load, after a change was answered.
LoadAgain(t) ==
  /\ addressesLoading' = TRUE /\ trips' = [trips EXCEPT ![t] = Loads]
  /\ missed' = (missed \/ Listing)

FillForm(place, row) == editing' = place /\ addressForm' = row
\* The dialog covers the page; a new one starts a count of its own.
OnAdd ==
  /\ OnAddressPage /\ editing = NoPlace
  /\ FillForm("new", Blank)
  /\ added' = 0 /\ again' = FALSE
  /\ trips' = [t \in Trips |-> IF trips[t].kind \in {"create", "saved"}
                               THEN [trips[t] EXCEPT !.mine = FALSE] ELSE trips[t]]
OnEdit(a) ==
  /\ OnAddressPage /\ editing = NoPlace /\ ~addressesLoading /\ a \in DOMAIN addresses
  /\ FillForm(a, addresses[a])
  /\ UNCHANGED <<trips, added, again>>
CloseModal ==
  /\ OnAddressPage /\ editing # NoPlace
  /\ FillForm(NoPlace, Blank)
  /\ UNCHANGED <<trips, added, again>>
\* The fields are typed, or picked on the map.
OnFields ==
  /\ OnAddressPage /\ editing # NoPlace
  /\ \E text \in Texts, def \in BOOLEAN : addressForm' = [text |-> text, def |-> def]
  /\ UNCHANGED <<editing, trips, added, again>>
Unanswered == \E t \in Trips : trips[t].kind \in {"create", "saved"} /\ trips[t].mine
OnSave ==
  /\ OnAddressPage /\ editing # NoPlace /\ addressForm.text # EmptyText
  /\ IF editing = "new"
     THEN Travels([kind |-> "create", row |-> addressForm, mine |-> TRUE])
     ELSE Travels([kind |-> "update", place |-> editing, row |-> addressForm, mine |-> FALSE])
  /\ again' = (again \/ (editing = "new" /\ Unanswered))
  /\ UNCHANGED <<editing, addressForm, added>>
SaveAnsweredOpen(t) ==                                         \* mutant
  /\ trips[t].kind = "saved"
  /\ LoadAgain(t)
  /\ UNCHANGED <<saved, addresses, editing, addressForm, added, again>>
\* closeModal, whatever dialog is open by now, and load.
SaveAnswered(t) ==
  /\ trips[t].kind = "saved"
  /\ FillForm(NoPlace, Blank) /\ LoadAgain(t)
  /\ UNCHANGED <<saved, addresses, added, again>>

OnSetDefault(a) ==
  /\ OnAddressPage /\ editing = NoPlace /\ ~addressesLoading
  /\ a \in DOMAIN addresses /\ ~addresses[a].def
  /\ Travels([kind |-> "default", place |-> a])
  /\ UNCHANGED <<editing, addressForm, added, again>>
OnDelete(a) ==
  /\ OnAddressPage /\ editing = NoPlace /\ ~addressesLoading /\ a \in DOMAIN addresses
  /\ Travels([kind |-> "delete", place |-> a])
  /\ UNCHANGED <<editing, addressForm, added, again>>
ChangeAnswered(t) ==
  /\ trips[t].kind = "changed" /\ LoadAgain(t)
  /\ UNCHANGED <<saved, addresses, editing, addressForm, added, again>>
\* A toast, or the form's message; the handler may have run.
TripFails(t) ==
  /\ trips[t] # NoTrip /\ trips' = [trips EXCEPT ![t] = NoTrip]
  /\ addressesLoading' = (addressesLoading /\ trips[t].kind \notin {"load", "listed"})
  /\ again' = (again \/ (trips[t].kind = "saved" /\ trips[t].mine))
  /\ missed' = TRUE
  /\ UNCHANGED <<saved, addresses, editing, addressForm, added>>

AddressFormInit ==
  /\ saved \in [Places -> {NoPlace} \cup [text : Texts, def : BOOLEAN]]
  /\ \A a, b \in Known : saved[a].def /\ saved[b].def => a = b
  /\ addresses = [a \in {} |-> NoPlace] /\ addressesLoading = TRUE
  /\ editing = NoPlace /\ addressForm = Blank
  /\ trips = [t \in Trips |-> IF \A s \in Trips : t <= s THEN Loads ELSE NoTrip]
  /\ added = 0 /\ again = FALSE /\ missed = FALSE

TripGoesOn(t) ==
  \/ Serves(t) \/ AddressesAnswered(t) \/ SaveAnswered(t) \/ ChangeAnswered(t) \/ TripFails(t)

AddressFormNext ==
  \/ \E t \in Trips : TripGoesOn(t)
  \/ \E a \in Places : OnEdit(a) \/ OnSetDefault(a) \/ OnDelete(a)
  \/ ShowAddresses \/ OnAdd \/ CloseModal \/ OnFields \/ OnSave

AddressFormSpec == AddressFormInit /\ [][AddressFormNext]_addressFormVars

(***************************************************************************)
(* Properties.                                                             *)
(***************************************************************************)

\* The dialog is of an address that there was, and the table has one default at most.
AddressFormTypeOK ==
  /\ editing \in Places \cup {"new", NoPlace}
  /\ \A a, b \in Known : saved[a].def /\ saved[b].def => a = b

\* A dialog makes one new address, unless it is saved again before, or without, an answer.
AddedOnce == again \/ added <= 1

\* When nothing is on its way the page lists the addresses there are, as they are, unless a
\* request failed or two lists were asked for at a time.
AddressesCurrent ==
  (\A t \in Trips : trips[t] = NoTrip) /\ ~missed => addresses = [a \in Known |-> saved[a]]

\* addresses.vue:30 offers "make default" for every address that is not the default one, and
\* :296 is to tell the user that it was made so: the request is refused only for an address
\* that is gone.
SetDefaultServed == \A t \in Trips : trips[t].kind = "refused" => trips[t].place \notin Known

\* The page of addresses saves once what its form holds, and lists what is stored
\* (my/addresses.vue).
AddressFormInv == AddressFormTypeOK /\ AddedOnce /\ AddressesCurrent

=============================================================================

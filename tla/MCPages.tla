------------------------------- MODULE MCPages -------------------------------
(***************************************************************************)
(* Instances of Messages, AddressForm, ProfileForm, WalletPage, Browse,    *)
(* AdminForms and AdminDesk for TLC.  The pages have nothing in common: a  *)
(* behaviour is one of a single module.                                    *)
(***************************************************************************)
EXTENDS Messages, AddressForm, ProfileForm, WalletPage, Browse, AdminDesk, TLC

VARIABLE part

ofMoney == <<walletPageVars, profileVars>>
ofGoods == <<msgVars, addressFormVars, browseVars>>
ofAdmin == <<adminVars, deskVars>>
pagesVars == <<part, ofMoney, ofGoods, ofAdmin>>
Buyer(p) == part = p /\ UNCHANGED <<part, ofAdmin>>
Admin(p) == part = p /\ UNCHANGED <<part, ofMoney, ofGoods>>

\* The parts that do not run stand at one initial state.
ClientPagesInit ==
  /\ part \in {"messages", "addresses", "profile", "wallet", "browse", "forms", "desk"}
  /\ MessagesInit /\ AddressFormInit /\ ProfileInit /\ WalletPageInit /\ BrowseInit
  /\ AdminInit /\ DeskInit
  /\ part # "messages" => In({"unread"}) = {}
  /\ part # "addresses" => Known = {}
  /\ part # "profile" => account = Empty
  /\ part # "wallet" => funds = 0
  /\ part # "browse" => ~session /\ On("home")
  /\ part # "forms" => Existent = {}
  /\ part # "desk" => Employed = {}

ClientPagesNext ==
  \/ Buyer("messages") /\ MessagesNext /\ UNCHANGED <<ofMoney, addressFormVars, browseVars>>
  \/ Buyer("addresses") /\ AddressFormNext /\ UNCHANGED <<ofMoney, msgVars, browseVars>>
  \/ Buyer("browse") /\ BrowseNext /\ UNCHANGED <<ofMoney, msgVars, addressFormVars>>
  \/ Buyer("profile") /\ ProfileNext /\ UNCHANGED <<ofGoods, walletPageVars>>
  \/ Buyer("wallet") /\ WalletPageNext /\ UNCHANGED <<ofGoods, profileVars>>
  \/ Admin("forms") /\ AdminNext /\ UNCHANGED deskVars
  \/ Admin("desk") /\ DeskNext /\ UNCHANGED adminVars

ClientPagesSpec == ClientPagesInit /\ [][ClientPagesNext]_pagesVars

\* The newest pig is the second farmer's second.
MCFarmerOf == (1 :> 11) @@ (2 :> 12) @@ (3 :> 12)
=============================================================================

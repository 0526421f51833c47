------------------------------ MODULE MCParts ------------------------------
(***************************************************************************)
(* Parts of the library that keep state of their own: the WINEVENT         *)
(* handlers, the list of recent files, BROWSE.  They share nothing, so a   *)
(* behaviour uses one of them, chosen at the start.                        *)
(***************************************************************************)
EXTENDS AppEventsProps, MruListProps, BrowseProps

CONSTANT a1

VARIABLE part

partsVars == <<part, vars, mruVars, browseVars>>

MCUpper == [f \in Files |-> IF f = "a" THEN "A" ELSE f]
MCFileStates == {<<"live", "deleted", "live", "live">>, <<"live">>}
MCSynced == [deleted |-> TRUE, sync |-> TRUE, eachClick |-> FALSE]
MCSettings == {MCSynced, [deleted |-> FALSE, sync |-> FALSE, eachClick |-> TRUE]}

PartsInit ==
  /\ part \in {"handlers", "recent", "records"}
  /\ Init /\ MruInit /\ BrowseInit
  /\ part # "records" =>
       area = [recs |-> <<"live">>, recno |-> 2] /\ set = MCSynced

Handlers == part = "handlers" /\ Next /\ UNCHANGED <<part, mruVars, browseVars>>
Recent == part = "recent" /\ MruNext /\ UNCHANGED <<part, vars, browseVars>>
Records == part = "records" /\ BrowseStep /\ UNCHANGED <<part, vars, mruVars>>

PartsNext == Handlers \/ Recent \/ Records

PartsSpec == PartsInit /\ [][PartsNext]_partsVars
=============================================================================

------------------------------ MODULE VarSync ------------------------------
(* VarSyncGameMgr: variables that the owner of the game creates and sets,    *)
(* and that every member is shown.                                           *)
EXTENDS GameManagers

CONSTANTS
  VarNames, VarValues,
  MaxVars    \* bound: variables of the game

VARIABLES
  vars,   \* m_vars: the variables, each known by its place
  shown   \* what each client was told of them, by their place

varSyncVars == <<vars, shown>>

VarSyncInit ==
  /\ vars = <<>>
  /\ shown = [p \in Players |-> <<>>]

VarSyncOwner(p) == kind = "varsync" /\ MayPlay(p) /\ AgeOwner = p

(* What a client knows of the variables once it is told news of some.        *)
Informed(known, news) ==
  [i \in DOMAIN news \cup DOMAIN known |-> IF i \in DOMAIN news THEN news[i] ELSE known[i]]

(* Srv2Cli_VarSync_VarCreated and NumericVarChanged: variable i is v.        *)
Tell(who, i, v) ==
  [p \in Players |-> IF p \in who THEN Informed(shown[p], [j \in {i} |-> v]) ELSE shown[p]]

(* A spoiled form: one that exists takes the value, which its creator hears. *)
MutCreateNumericVar(p, name, val) ==
  LET same == {i \in DOMAIN vars : vars[i].name = name}
      new == [name |-> name, val |-> val] IN
  /\ VarSyncOwner(p)
  /\ \/ \E i \in same : shown' = Tell({p}, i, new) /\ vars' = [vars EXCEPT ![i] = new]
     \/ /\ same = {} /\ Len(vars) < MaxVars
        /\ vars' = Append(vars, new)
        /\ shown' = Tell(Members, Len(vars) + 1, new)
  /\ UNCHANGED mgrVars
(* CreateNumericVar: one that exists is told to the owner alone.             *)
CreateNumericVar(p, name, val) ==
  LET same == {i \in DOMAIN vars : vars[i].name = name}
      new == [name |-> name, val |-> val] IN
  /\ VarSyncOwner(p)
  /\ \/ \E i \in same : shown' = Tell({p}, i, vars[i]) /\ UNCHANGED vars
     \/ /\ same = {} /\ Len(vars) < MaxVars
        /\ vars' = Append(vars, new)
        /\ shown' = Tell(Members, Len(vars) + 1, new)
  /\ UNCHANGED mgrVars

(* SetNumericVar: sent on to every member, the owner included.  The client   *)
(* is assumed to name a variable it was told of: a change of any other is    *)
(* sent on as well, though there is nothing to change.                       *)
SetNumericVar(p, i, val) ==
  /\ VarSyncOwner(p) /\ i \in DOMAIN shown[p] /\ i \in DOMAIN vars
  /\ vars' = [vars EXCEPT ![i].val = val]
  /\ shown' = Tell(Members, i, vars'[i])
  /\ UNCHANGED mgrVars

(* initialize_game: the new member is sent every variable.                   *)
VarSyncInitialized(ps) ==
  /\ shown' = [p \in Players |-> IF p \in ps \cap here THEN Informed(shown[p], vars) ELSE shown[p]]
  /\ UNCHANGED vars

(* player_left: the variables go with the last member.                       *)
VarSyncLeft(p) ==
  /\ vars' = IF mgrs' # <<>> /\ mgrs'[1].players # <<>> THEN vars ELSE <<>>
  /\ shown' = [shown EXCEPT ![p] = <<>>]

(* Whoever joined the game sees the variables the server has, and the values *)
(* they have there, whenever it joined and whoever set them.                 *)
ViewsAgree ==
  kind = "varsync" => \A p \in Players : MayPlay(p) => shown[p] = vars
=============================================================================

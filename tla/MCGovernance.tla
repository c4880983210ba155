---------------------------- MODULE MCGovernance ----------------------------
(***************************************************************************)
(* Who may do what to which rows, part by part: roles and permissions,     *)
(* row policies, grants and publications between applications, and         *)
(* approved actions and their releases.  The parts share no state, so a    *)
(* behaviour is one of a single part while the others rest in an initial   *)
(* state.                                                                  *)
(***************************************************************************)
EXTENDS Authority, RowAccess, CrossAppAccess, AppRelease

CONSTANT Parts   \* the parts a run explores

VARIABLE part

-----------------------------------------------------------------------------
(* Roles: every pair of small permission sets, a chain and a diamond.      *)

Key(path, scope) == [path |-> path, scope |-> scope]
MCKeys == {Key(<<"*">>, "all"), Key(<<"app", "*">>, "all"), Key(<<"app", "x", "*">>, "all"),
           Key(<<"app", "x", "read">>, "all"), Key(<<"app", "x", "read">>, "own"),
           Key(<<"app", "x", "read">>, "shared"), Key(<<"app", "y", "read">>, "own")}

AuthRow(parents, perms) == [parents |-> parents, perms |-> perms]
Few == {S \in SUBSET MCKeys : Cardinality(S) <= 2}

\* An agent and a human, each with a role of its own; no edits.
Pairs == {[table |-> [r \in {"r1", "r2"} |-> AuthRow(<<>>, IF r = "r1" THEN a ELSE b)],
           held |-> [p \in {"agent", "human"} |-> IF p = "agent" THEN {"r1"} ELSE {"r2"}],
           spent |-> 3]
          : a \in Few, b \in Few}

XRead == {Key(<<"app", "x", "read">>, "own")}
\* A chain of three roles, and a diamond's worth of parents.
Chain == [table |-> [r \in {"r1", "r2", "r3"} |->
                       CASE r = "r1" -> AuthRow(<<"r2">>, {}) [] r = "r2" -> AuthRow(<<"r3">>, {})
                         [] r = "r3" -> AuthRow(<<>>, XRead)],
          held |-> [p \in {"agent", "human"} |-> IF p = "agent" THEN {"r1"} ELSE {"r2", "r3"}],
          spent |-> 1]
Loose == [table |-> [r \in {"r1", "r2"} |-> AuthRow(<<>>, IF r = "r1" THEN XRead ELSE {})],
          held |-> [p \in {"agent", "human"} |-> {"r1", "r2"}],
          spent |-> 1]
MCBeginnings == Pairs \cup {Chain, Loose}

MCRevisions == {AuthRow(ps, {}) : ps \in {<<>>, <<"r1">>, <<"r2", "r3">>, <<"r3", "r2">>}}

-----------------------------------------------------------------------------
(* Ownership contracts that validate, and some that do not.                *)

Decl(memo, note, folder, share) ==
  [owner |-> [memo |-> memo, note |-> note, folder |-> folder, desk |-> "user"], share |-> share]
MCDeclarations ==
  { Decl("none", "folder", "desk", "identity"),
    Decl("none", "user", "none", "resource"),
    Decl("note", "folder", "desk", "none"),
    Decl("none", "folder", "note", "none"),
    Decl("none", "folder", "none", "none") }
MCRoleMixes == { [ann |-> {"own", "shared"}, bob |-> {"own"}],
                 [ann |-> {"own"}, bob |-> {"all"}] }
MCFilled == {Tables, Tables \ {"note"}}
MCOwners == [k1 |-> "ann", k2 |-> "bob"]

-----------------------------------------------------------------------------
(* What two processes do to grants and publications.                       *)

Mix(one, other, consumers, declared, gs, us, limit) ==
  [ops |-> [p1 |-> one, p2 |-> other], consumers |-> consumers, declared |-> declared,
   grants |-> gs, pubs |-> us, limit |-> limit]

(* The life of a grant, from its creation, beside operations under it.     *)
GrantLife == Mix({"create", "approve", "revoke"}, {"operate", "install"}, {1}, {}, <<>>, <<>>, 1)

(* Operations under a grant that is switched off and on, and an uninstall. *)
Interrupted == Mix({"disable", "enable", "revoke"}, {"operate", "uninstall"}, {1}, {}, <<<<1, 2>>>>, <<>>, 1)

(* Two administrators of one grant.                                        *)
TwoHands == Mix({"approve", "revoke", "view"}, {"disable", "enable", "install"}, {1}, {}, <<<<1, 2>>>>, <<>>, 1)

(* A grant that lapsed or was disabled, and the one that replaces it.      *)
Renewal == Mix({"create", "view"}, {"disable", "enable", "uninstall"}, {1}, {}, <<<<1, 2>>>>, <<>>, 2)

(* The life of a publication over an approved grant.                       *)
PubLife == Mix({"publish", "pubDisable", "pubEnable", "pubRevoke", "revoke"}, {"published", "uninstall"},
               {}, {<<2, 1>>}, <<<<2, 1>>>>, <<<<2, 1>>>>, 1)
OwnPubLife == Mix({"publish", "pubRevoke"}, {"published", "uninstall"}, {}, {<<1, 1>>}, <<>>, <<<<1, 1>>>>, 1)

(* Every kind of request that locks installations, side by side.           *)
LockOrder == Mix({"create", "agent"}, {"create", "published", "workflow"}, {1, 2}, {}, <<<<2, 1>>>>, <<<<2, 1>>>>, 1)

(* A publication whose provider is installed anew, and the one after it.    *)
Superseded == Mix({"publish"}, {"install", "published"}, {}, {<<2, 1>>}, <<<<2, 1>>>>, <<<<2, 1>>>>, 2)

(* A read of a publication while its grant is made anew.                    *)
Regranted == Mix({"install", "create", "approve"}, {"published"}, {2}, {}, <<>>, <<<<2, 1>>>>, 1)

MCMixes == {GrantLife, Interrupted, TwoHands, Renewal, PubLife, OwnPubLife, LockOrder, Superseded,
            Regranted}

-----------------------------------------------------------------------------
(* What two administrators do side by side.                                *)

MCManifests == {[contract |-> 1, look |-> 1], [contract |-> 1, look |-> 2], [contract |-> 2, look |-> 1]}
Duty(one, other, n, deployed) == [ops |-> [a1 |-> one, a2 |-> other], revs |-> n, deployed |-> deployed]
MCDuties == {Duty({"deploy", "revoke"}, {"inspect", "approve"}, 2, TRUE),
             Duty({"deploy", "install"}, {"inspect", "approve"}, 2, TRUE),
             Duty({"uninstall", "install"}, {"inspect", "approve"}, 1, TRUE),
             Duty({"catalog"}, {"inspect", "approve"}, 2, TRUE),
             Duty({"uninstall", "install"}, {"deploy"}, 2, FALSE)}

-----------------------------------------------------------------------------
AtRest == [table |-> <<>>, held |-> <<>>, spent |-> 3]
GovBeginnings == MCBeginnings \cup {AtRest}

govVars == <<part, authVars, rowVars, accessVars, relVars>>

GovInit ==
  /\ part \in Parts
  /\ part = "roles" \/ (part # "roles" /\ table = AtRest.table)
  /\ AuthInit
  /\ part = "rows" \/ (part # "rows" /\ manifest = Decl("none", "user", "none", "resource")
                       /\ roles = [ann |-> {"own"}, bob |-> {"all"}])
  /\ RowInit
  /\ part = "rows" \/ (part # "rows" /\ data["note"]["k1"] = Gone)
  /\ part = "grants" \/ (part # "grants" /\ mix = TwoHands)
  /\ AccessInit
  /\ part = "release" \/ (part # "release" /\ duty = Duty({"catalog"}, {"inspect", "approve"}, 2, TRUE))
  /\ ReleaseInit

GovNext ==
  /\ UNCHANGED part
  /\ \/ part = "roles" /\ AuthNext /\ UNCHANGED <<rowVars, accessVars, relVars>>
     \/ part = "rows" /\ RowNext /\ UNCHANGED <<authVars, accessVars, relVars>>
     \/ part = "grants" /\ AccessNext /\ UNCHANGED <<authVars, rowVars, relVars>>
     \/ part = "release" /\ ReleaseNext /\ UNCHANGED <<authVars, rowVars, accessVars>>

GovSpec == GovInit /\ [][GovNext]_govVars

=============================================================================

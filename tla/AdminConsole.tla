---------------------------- MODULE AdminConsole ----------------------------
(***************************************************************************)
(* The console's two independent halves for TLC: access (AdminAccess) and  *)
(* collection profiles (CollectionProfiles).  They share no state, so a    *)
(* behaviour of both is one of each, interleaved, and a property of one    *)
(* half can be checked while the other stands still.  `focus', chosen      *)
(* initially, says what moves; it also narrows access to what a question   *)
(* about it needs:                                                         *)
(*   passwords  logins, sessions, password changes, restarts; one tick     *)
(*   throttle   logins from one address while time passes                  *)
(*   crowd      logins from as many addresses as the throttle has entries  *)
(*   keys       the merchant keys and restarts                             *)
(*   profiles   the collection profiles                                    *)
(***************************************************************************)
EXTENDS AdminAccess, CollectionProfiles, TLC

CONSTANT OneRemote  \* where logins come from unless they crowd

ASSUME ConsoleAssumption == OneRemote \in Remotes

VARIABLE focus
vars == <<focus, accessVars, profileVars>>

Init ==
  /\ AccessInit /\ ProfilesInit
  /\ focus \in {"passwords", "throttle", "crowd", "keys", "profiles"}

Logins(S) ==
  \E c \in Requests :
    \/ \E r \in S, p \in Passwords : Arrive(c, r, p)
    \/ LoginStep(c) /\ req[c] # Idle

AccessMoves ==
  \/ focus \in {"passwords", "keys"} /\ (Start \/ Stop)
  \/ focus \in {"throttle", "crowd"} /\ Start
  \/ focus = "passwords" /\ Logins({OneRemote})
  \/ focus = "passwords" /\ \E c \in Requests : ChangeStep(c)
  \/ focus \in {"passwords", "throttle"} /\ \E t \in Tokens : Logout(t)
  \/ focus = "throttle" /\ (AccessTick \/ Logins({OneRemote}))
  \/ focus = "crowd" /\ Logins(Remotes)
  \/ focus \in {"passwords", "crowd"} /\ now < 2 /\ AccessTick
  \/ focus = "keys" /\ KeyStep

Next ==
  /\ UNCHANGED focus
  /\ \/ focus # "profiles" /\ AccessMoves /\ UNCHANGED profileVars
     \/ focus = "profiles" /\ ProfilesNext /\ UNCHANGED accessVars

Spec == Init /\ [][Next]_vars

\* Nothing tells requests, tokens, created keys, profiles or calls apart.
Symmetry ==
  Permutations(Requests) \cup Permutations(Tokens) \cup Permutations(CreatedKeys)
    \cup Permutations(Profiles) \cup Permutations(Calls)

\* Every variable of both halves has its type (see AccessTypeOK).
TypeOK == AccessTypeOK /\ ProfilesTypeOK
=============================================================================

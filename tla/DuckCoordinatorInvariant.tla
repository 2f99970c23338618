---------------------- MODULE DuckCoordinatorInvariant ----------------------
(***************************************************************************)
(* The inductive invariant of the DuckDB coordinator: what ties the files  *)
(* a caller has reached to the entries it refers to, the tokens it fills   *)
(* and the lock files it holds.                                            *)
(***************************************************************************)
EXTENDS DuckCoordinator

\* A caller between taking a reference and giving it back.
AtPath == {"token", "file", "untoken", "drop"}

Acquiring == {"refer", "token", "file"}

\* Which paths a caller refers to is a matter of where it is.
Positions ==
  \A c \in Caller :
    /\ current[c] # NoPath <=> at[c] \in AtPath
    /\ current[c] \notin acquired[c]
    /\ at[c] = "idle" => acquired[c] = {} /\ left[c] = {}

Referring ==
  \A c \in Caller, p \in Path :
    mine[c][p] # NoEntry <=> p \in acquired[c] \/ p = current[c]

\* Whose lock files are locked.
FileOwners ==
  \A c \in Caller, p \in Path : flock[p] = c <=> p \in acquired[c]

\* Past the token of a path.
HasToken(c, p) ==
  \/ p \in acquired[c]
  \/ p = current[c] /\ at[c] \in {"file", "untoken"}

TokenOwners ==
  /\ \A c \in Caller, p \in Path :
       HasToken(c, p) => token[mine[c][p]] = c
  /\ \A c \in Caller, e \in Entry :
       token[e] = c => \E p \in Path : mine[c][p] = e /\ HasToken(c, p)

\* Two places of the registries never share an entry.
OnePlacePerEntry ==
  \A g, h \in Process, p, q \in Path :
    entries[g][p] = entries[h][q] /\ entries[g][p] # NoEntry
      => g = h /\ p = q

Referers(e) == {c \in Caller : \E p \in Path : mine[c][p] = e}

Counted == \A e \in Entry : refs[e] = Cardinality(Referers(e))

Ascending ==
  \A c \in Caller : at[c] \in Acquiring =>
    /\ \A p \in acquired[c], q \in left[c] : Rank[p] < Rank[q]
    /\ \A p \in acquired[c] :
         current[c] # NoPath => Rank[p] < Rank[current[c]]
    /\ \A q \in left[c] :
         current[c] # NoPath => Rank[current[c]] < Rank[q]

(***************************************************************************)
(* The inductive invariant.  OneEntryPerFile and OnePlacePerEntry say that *)
(* an entry stands for one file of one process; Counted, that it is        *)
(* deleted with its last user only; FileOwners gives the exclusion.        *)
(***************************************************************************)
IInv ==
  /\ TypeOK
  /\ Positions /\ Referring
  /\ FileOwners /\ TokenOwners
  /\ OneEntryPerFile /\ OnePlacePerEntry /\ Counted /\ RegistryIsTidy
  /\ Ascending
=============================================================================

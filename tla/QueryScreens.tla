----------------------------- MODULE QueryScreens -----------------------------
(***************************************************************************)
(* What the screens of PageQueries promise one another, key by key: facts  *)
(* about the tables alone, which TLC evaluates for the pages as they are.  *)
(* QueryCache_proofs shows that they are all that is needed: with any      *)
(* pages that keep these promises the cache shows what it should, however  *)
(* the user walks, and whatever requests are on their way.                 *)
(***************************************************************************)
EXTENDS QueryCache

ASSUME ScreensAreDistinct ==
    \A k \in AllKeys: \A u, v \in Users[k]: u.screen = v.screen => u = v

ASSUME ScreensAreTyped ==
    /\ DOMAIN Users = AllKeys
    /\ \A k \in AllKeys:
          /\ \E u \in Users[k]: u.screen = Elsewhere /\ u.over = {}
          /\ \A u \in Users[k]:
                /\ u.screen \in STRING /\ u.screen # None
                /\ \A r \in u.reads: r.fills \in Shapes \ {"none"}
                /\ \A w \in u.writes: w.how \in {"mark", "refetch"} /\ w.reaches \in BOOLEAN

\* What one screen stores any other that reads the key can show.
ASSUME ScreensShareShapes ==
    \A k \in AllKeys: \A u, v \in Users[k]: \A r \in u.reads, s \in v.reads:
        s.fills \in r.shows \/ <<u.screen, k>> \in Unreadable

\* The onSuccess of a screen reaches what its own page reads.
ASSUME WritesReachOwnPage ==
    \A k \in AllKeys: \A u \in Users[k]: \A w \in u.writes:
        w.reaches \/ (HostReads(k, u.screen) => <<u.screen, k>> \in Unreached)
=============================================================================

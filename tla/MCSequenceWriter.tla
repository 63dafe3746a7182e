-------------------------- MODULE MCSequenceWriter --------------------------
(***************************************************************************)
(* Small instances of SequenceWriter for TLC.  Bins are four bits wide, so *)
(* that sums and differences leave the range within a few steps.           *)
(***************************************************************************)
EXTENDS SequenceWriter

CONSTANTS g1, g2

FourBitMin == -8

\* The birth-time grid is coarse for a row of sigma bin 0 and fine otherwise.
MCMuStep(sigma, flags) == IF sigma = 0 THEN 2 ELSE 1

Row(position, motion, mu_t, turn, sigma) ==
    [a \in REQUIRED |-> CASE a = "position"       -> position
                          [] a = "motion"         -> motion
                          [] a = "mu_t"           -> mu_t
                          [] a = "rotation_index" -> turn
                          [] a = "rotation"       -> turn
                          [] a = "sigma_t"        -> sigma
                          [] OTHER                -> 0]

Still   == Row(0, 0, 0, 0, 0)
Moved   == Row(2, 1, 1, 3, 0)
Far     == Row(7, 0, 0, 0, 0)
Back    == Row(-8, 0, 2, 1, 0)
Fading  == Row(1, 0, 0, 0, 1)
TooFar  == Row(9, 0, 0, 0, 0)

\* The populations whose gaussians are ids, each with one of the rows.
Populations(ids, rows) ==
    {[ids |-> ids, bins |-> [a \in REQUIRED |-> [g \in ids |-> choice[g][a]]]] :
        choice \in [ids -> rows]}

AnyPopulation(ids, rows) == UNION {Populations(some, rows) : some \in SUBSET ids}

Options(every, modes, forced, duration) ==
    [every : every, mode : modes, at : forced, duration_sec : {duration}]

AnyMode == {DELTA_MODE_KEYFRAME, DELTA_MODE_CHAINED}

\* Chains: one gaussian, five samples a second apart.
ChainOffered(i) == {[t0 |-> i - 1, state |-> s] :
                        s \in AnyPopulation({g1}, {Still, Moved})}
ChainOptions == Options({0, 2, 3}, AnyMode, {{}, {2}}, 5)

\* Cuts: chains that may be refused half way.
CutOffered(i) == {[t0 |-> i - 1, state |-> s] :
                      s \in IF i <= 3 THEN AnyPopulation({g1}, {Still, Moved, Fading}) ELSE Populations({g1}, {Still})}

\* Samples encode() may refuse: bins at the ends of the range and past it, and
\* sample times in any order, before, at and after the duration.
EdgeOffered(i) == {[t0 |-> i - 1, state |-> s] :
                       s \in AnyPopulation({g1, g2}, {Still, Far, Back})
                             \cup Populations({g1}, {TooFar, Fading})}
TimeOffered(i) == {[t0 |-> t, state |-> s] :
                       t \in -1 .. 3, s \in AnyPopulation({g1}, {Still, Moved})}
RefusalOffered(i) == EdgeOffered(i) \cup TimeOffered(i)
EdgeOptions == Options({0}, AnyMode, {{}, {1}}, 3)
TimeOptions == Options({0, 1}, {DELTA_MODE_CHAINED}, {{}}, 2)
RefusalOptions == EdgeOptions \cup TimeOptions
=============================================================================

-------------------------- MODULE ProductController --------------------------
(***************************************************************************)
(* The five product controllers, controllers/ping{federate,directory,      *)
(* access,authorize,authorizepap}_controller.go: the same code for each    *)
(* kind.  Each has one worker.                                             *)
(***************************************************************************)
EXTENDS ClusterState

VARIABLE
  pending     \* [Kinds -> SUBSET (Products \X ProdVersion)]: the product whose
              \* environment the kind's worker has missed, as it read it

prodVars == <<pending>>

Kinds == {KindOf[p] : p \in Products}

ProdTypeOK ==
  /\ pending \in [Kinds -> SUBSET (Products \X ProdVersion)]
  /\ \A k \in Kinds : \A m, n \in pending[k] : m = n

ProdInit == pending = [k \in Kinds |-> {}]

\* The worker of p's kind takes the request for p.
ProdDequeue(p) == /\ pending[KindOf[p]] = {}
                  /\ p \in prodQ
                  /\ prodQ' = prodQ \ {p}

\* The product is not in the cache.
ProdNotFound(p) ==
  /\ ProdDequeue(p)
  /\ ~Cached(prodLog[p]).live
  /\ UNCHANGED <<prodVars, envLog, prodLog, release, envQ, faults>>

\* The finalizer is removed from a product being deleted, and the API server
\* deletes it.  A stale copy is refused and the request made again: a step
\* that changes nothing.
ProdRemoveFinalizer(p) ==
  LET c == Cached(prodLog[p]) IN
  /\ ProdDequeue(p)
  /\ c.live /\ c.del /\ c.fin
  /\ Fresh(prodLog[p], c)
  /\ WriteProd(p, ProdGone(c.rv))
  /\ UNCHANGED <<prodVars, envLog, release, envQ, faults>>

\* The finalizer is added and the request made again, whether or not the
\* Update is accepted.
ProdAddFinalizer(p) ==
  LET c == Cached(prodLog[p]) IN
  /\ pending[KindOf[p]] = {}
  /\ p \in prodQ
  /\ c.live /\ ~c.del /\ ~c.fin
  /\ Fresh(prodLog[p], c)
  /\ WriteProd(p, [c EXCEPT !.fin = TRUE])
  /\ UNCHANGED <<prodVars, envLog, release, envQ, prodQ, faults>>

\* A product with its finalizer waits for nothing but its environment.
Settled(c) == c.live /\ ~c.del /\ c.fin

\* The environment is in the cache: nothing is left to do.
EnvFound(p) ==
  /\ ProdDequeue(p)
  /\ Settled(Cached(prodLog[p]))
  /\ Cached(envLog[Cached(prodLog[p]).ref]).live
  /\ UNCHANGED <<prodVars, envLog, prodLog, release, envQ, faults>>

\* The environment is not in the cache.
EnvMissing(p) ==
  /\ ProdDequeue(p)
  /\ Settled(Cached(prodLog[p]))
  /\ ~Cached(envLog[Cached(prodLog[p]).ref]).live
  /\ pending' = [pending EXCEPT ![KindOf[p]] = {<<p, Cached(prodLog[p])>>}]
  /\ UNCHANGED <<envLog, prodLog, release, envQ, faults>>

\* Mutant: the request does not come again.
PatchPendingOnce(p, c) ==
  LET now == Current(prodLog[p]) IN
  /\ <<p, c>> \in pending[KindOf[p]]
  /\ \/ /\ IF now.live
           THEN WriteProd(p, [now EXCEPT !.phase = Patched(@, c.phase, "Pending")])
           ELSE prodLog' = prodLog
        /\ faults' = faults
     \/ /\ prodLog' = prodLog
        /\ Fault("patch")
  /\ pending' = [pending EXCEPT ![KindOf[p]] = {}]
  /\ UNCHANGED <<envLog, release, envQ, prodQ>>

\* The phase is patched to Pending, an error is ignored, and the request comes
\* again in 10 seconds.
PatchPending(p, c) ==
  LET now == Current(prodLog[p]) IN
  /\ <<p, c>> \in pending[KindOf[p]]
  /\ \/ /\ IF now.live
           THEN WriteProd(p, [now EXCEPT !.phase = Patched(@, c.phase, "Pending")])
           ELSE prodLog' = prodLog
        /\ faults' = faults
     \/ /\ prodLog' = prodLog
        /\ Fault("patch")
  /\ pending' = [pending EXCEPT ![KindOf[p]] = {}]
  /\ prodQ' = prodQ \cup {p}
  /\ UNCHANGED <<envLog, release, envQ>>

ProdStep ==
  \E p \in Products :
    \/ ProdNotFound(p)
    \/ ProdRemoveFinalizer(p)
    \/ ProdAddFinalizer(p)
    \/ EnvFound(p)
    \/ EnvMissing(p)
    \/ \E m \in pending[KindOf[p]] : m[1] = p /\ PatchPending(p, m[2])
==============================================================================

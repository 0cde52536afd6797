------------------------------ MODULE MCServices ------------------------------
(***************************************************************************)
(* The request path and the stores behind it, for safety.  The nine share  *)
(* the clock and no state, so a behaviour is one of them at work; which    *)
(* one is chosen at the start.                                             *)
(***************************************************************************)
EXTENDS Ingress, Sessions, Admission, OrderFeed, AnalyticsStore, Fees, FeeKeeper,
        PoolBooks, NonceWindow, TLC

CONSTANTS s1, s2, f1, f2, f3, f4

VARIABLE service   \* the one at work

feeOwn == <<feeStore, inForce>>
serviceVars == <<service, now, ingressVars, authVars, admissionVars, feedVars, storeVars,
                 feeOwn, keeperVars, booksVars, vars>>

ServicesInit ==
  /\ service \in {"ingress", "auth", "admission", "feed", "analytics", "fees", "keeper", "books",
                 "nonces"}
  /\ IngressInit /\ AuthInit /\ AdmissionInit /\ FeedInit /\ StoreInit /\ FeeInit
  /\ KeeperInit /\ BooksInit /\ Init

ServicesNext ==
  /\ UNCHANGED service
  /\ \/ /\ service = "ingress" /\ IngressNext
        /\ UNCHANGED <<authVars, admissionVars, feedVars, storeVars, feeOwn, keeperVars,
                       booksVars, vars>>
     \/ /\ service = "auth" /\ AuthNext
        /\ UNCHANGED <<ingressVars, admissionVars, feedVars, storeVars, feeOwn, keeperVars,
                       booksVars, vars>>
     \/ /\ service = "admission" /\ AdmissionNext
        /\ UNCHANGED <<now, ingressVars, authVars, feedVars, storeVars, feeOwn, keeperVars,
                       booksVars, vars>>
     \/ /\ service = "feed" /\ FeedNext
        /\ UNCHANGED <<now, ingressVars, authVars, admissionVars, storeVars, feeOwn, keeperVars,
                       booksVars, vars>>
     \/ /\ service = "analytics" /\ StoreNext
        /\ UNCHANGED <<ingressVars, authVars, admissionVars, feedVars, feeOwn, keeperVars,
                       booksVars, vars>>
     \/ /\ service = "fees" /\ FeeNext
        /\ UNCHANGED <<ingressVars, authVars, admissionVars, feedVars, storeVars, keeperVars,
                       booksVars, vars>>
     \/ /\ service = "keeper" /\ KeeperNext
        /\ UNCHANGED <<now, ingressVars, authVars, admissionVars, feedVars, storeVars, feeOwn,
                       booksVars, vars>>
     \/ /\ service = "books" /\ BooksNext
        /\ UNCHANGED <<now, ingressVars, authVars, admissionVars, feedVars, storeVars, feeOwn,
                       keeperVars, vars>>
     \/ /\ service = "nonces" /\ Next
        /\ UNCHANGED <<now, ingressVars, authVars, admissionVars, feedVars, storeVars, feeOwn,
                       keeperVars, booksVars>>

ServicesSpec == ServicesInit /\ [][ServicesNext]_serviceVars

\* Only the fees: the two senders of batches, the expiry task and the engine.
FeesSpec == ServicesInit /\ service = "fees" /\ [][ServicesNext]_serviceVars

\* A swap each way between the two assets.
MCSwapOf ==
  LET Swap(i, o, m, n, v, f) ==
        [user |-> "u", assetIn |-> i, assetOut |-> o, amountIn |-> m, amountOut |-> n,
         value |-> v, fee |-> f]
  IN  s1 :> Swap("x", "y", 2, 1, 3, 1) @@ s2 :> Swap("y", "x", 1, 1, 2, 0)

\* Two funds and a redeem in two steps; amounts and prices do not divide evenly.
MCFlowOf ==
  LET Flow(k, m, t) == [kind |-> k, user |-> "u", asset |-> "x", amount |-> m, time |-> t]
  IN  f1 :> Flow("fund", 3, 1) @@ f2 :> Flow("redeem", 2, 1)
        @@ f3 :> Flow("init_redeem", 2, 0) @@ f4 :> Flow("fund", 2, 0)
===============================================================================

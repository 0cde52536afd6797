------------------------------ MODULE MCWorkers ------------------------------
(***************************************************************************)
(* The background tasks of the server, each under the fairness its loop    *)
(* justifies.  They share the clock and no state, so a behaviour is one of *)
(* the four at work; which one is chosen at the start.                     *)
(***************************************************************************)
EXTENDS Connections, CashFlows, PriceFeed, Provisioning

VARIABLE service   \* the one at work

flowOwn == <<priced, journal, tip, visible, cursor, skips, worker, news, mirror,
             twice, missed, clipped, crashes>>
workerVars == <<service, now, authVars, connVars, flowOwn, priceVars, provVars>>

WorkersInit ==
  /\ service \in {"connections", "flows", "prices", "provisioning"}
  /\ ConnInit /\ FlowInit /\ PriceInit /\ ProvInit

WorkersNext ==
  /\ UNCHANGED service
  /\ \/ /\ service = "connections" /\ ConnNext
        /\ UNCHANGED <<flowOwn, priceVars, provVars>>
     \/ /\ service = "flows" /\ FlowNext
        /\ UNCHANGED <<authVars, connVars, priceVars, provVars>>
     \/ /\ service = "prices" /\ PriceNext
        /\ UNCHANGED <<now, authVars, connVars, flowOwn, provVars>>
     \/ /\ service = "provisioning" /\ ProvNext
        /\ UNCHANGED <<now, authVars, connVars, flowOwn, priceVars>>

WorkersSpec ==
  /\ WorkersInit /\ [][WorkersNext]_workerVars
  /\ \A c \in Conns :
       /\ WF_<<now, authVars, connVars>>(service = "connections" /\ Continue(c))
       /\ SF_<<now, authVars, connVars>>(service = "connections" /\ LeaveLoop(c))
  /\ WF_flowVars(service = "flows" /\ WorkerStep)
  /\ WF_priceVars(service = "prices" /\ TimePasses)
  /\ WF_priceVars(service = "prices" /\ ForwardStep)
  /\ WF_priceVars(service = "prices" /\ SendQueued)
  /\ WF_priceVars(service = "prices" /\ TakeCoalesced)
  /\ WF_provVars(service = "provisioning" /\ ProvisionStep)
  /\ WF_provVars(service = "provisioning" /\ AttachStep)

\* Every client at one address.
MCIpOf == [c \in Conns |-> 1]

\* Three blocks: funds, a redeem of all of them whose id comes before the fund of
\* the same block, and notes that are no cash flow.
MCNoteOf ==
  LET Note(b, k, m, c) == [block |-> b, kind |-> k, amount |-> m, created |-> c]
  IN  <<Note(1, "fund", 2, 0), Note(1, "malformed", 1, 0), Note(2, "init_redeem", 3, 1),
        Note(2, "fund", 1, NoTime), Note(3, "redeem", 3, 1), Note(3, "foreign", 1, 0)>>

\* A move below the threshold, one above it, and a price that repeats.
MCTape == <<10, 11, 20, 20>>
===============================================================================

--------------------------- MODULE BatchValidation ---------------------------
(* The requests and results of a notification batch (internal/types/api.go):
   how a request is normalized, and which results of a committed batch the
   caller trusts.  A raw ID is an integer: n > 0 is the ID n, -n the same ID
   with blanks around it, 0 a blank string; IDs sort as their numbers. *)
EXTENDS Integers, Sequences, FiniteSets, SequencesExt

CONSTANT MaxBatch       \* MaxBatchNotifications

ASSUME MaxBatchAssumption == MaxBatch \in Nat \ {0}

Operation == {"read", "unread", "handled", "unhandled"}
RequiresRemoteRead(op) == op = "read"

Trim(raw) == IF raw < 0 THEN -raw ELSE raw
Distinct(ids) == {Trim(ids[i]) : i \in 1 .. Len(ids)}

Accepted(request) ==
    /\ request.operation \in Operation
    /\ Len(request.ids) > 0
    /\ 0 \notin Distinct(request.ids)
    /\ Cardinality(Distinct(request.ids)) <= MaxBatch

Normalize(request) ==
    [request EXCEPT !.ids = SetToSortSeq(Distinct(request.ids), <)]

IsNormalized(request) == Accepted(request) /\ request = Normalize(request)

-----------------------------------------------------------------------------
RemoteStatus == {"not_required", "succeeded", "failed", "canceled", "not_attempted"}

(* Error codes are modelled as far as they are looked at. *)
CodeOf(status) ==
    CASE status = "failed" -> "remote_failed"
      [] status = "canceled" -> "canceled"
      [] OTHER -> ""

OutcomeFits(op, outcome) ==
    /\ IF RequiresRemoteRead(op) THEN outcome.status \in RemoteStatus \ {"not_required"}
                                 ELSE outcome.status = "not_required"
    /\ outcome.code = CodeOf(outcome.status)

Valid(expected, result) ==
    /\ Accepted(expected)
    /\ IsNormalized(result.request)
    /\ Normalize(expected) = result.request
    /\ result.status = "committed"
    /\ result.reconciliation \in {"authoritative", "pending"}
    /\ Len(result.outcomes) = Cardinality(Distinct(expected.ids))
    /\ \A i \in 1 .. Len(result.outcomes) :
        /\ result.outcomes[i].id \in Distinct(expected.ids)
        /\ \A j \in 1 .. i - 1 : result.outcomes[j].id # result.outcomes[i].id
        /\ OutcomeFits(expected.operation, result.outcomes[i])
=============================================================================

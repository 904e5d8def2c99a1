--------------------- MODULE MCContractViolationReporter ---------------------
EXTENDS ContractViolationReporter, TLC

(* A critical id, and one that two endpoints share: an endpoint named like *)
(* a code makes two different lists of errors one id.                      *)
MCValidation ==
    {[route |-> "GET /x", codes |-> {"ENDPOINT_NOT_FOUND"}],
     [route |-> "GET /b/MISSING_HEADER", codes |-> {"MISSING_QUERY_PARAMETER"}],
     [route |-> "GET /b", codes |-> {"MISSING_HEADER", "MISSING_QUERY_PARAMETER"}]}
MCSlug == [v \in MCValidation |->
              CASE v.route = "GET /x" -> "GET__x_ENDPOINT_NOT_FOUND"
                [] OTHER -> "GET__b_MISSING_HEADER_MISSING_QUERY_PARAMETER"]

Symmetry == Permutations(Object)
=============================================================================

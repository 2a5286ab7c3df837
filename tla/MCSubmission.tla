---------------------------- MODULE MCSubmission ----------------------------
(* One call of wrk with any options: calls meet only at input/ready, which   *)
(* may or may not be there.  The daemon has its default prompt limit.        *)
EXTENDS Submission

CONSTANT c1

OneCall == {c1}
DefaultLimit == {"empty", "short", "long"}
=============================================================================

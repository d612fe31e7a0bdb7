---------------------------- MODULE MCExecPetition ---------------------------
\* Model-checking instance of ExecPetition: which requests clients make.
EXTENDS ExecPetition, TLC

CONSTANT g1

R(d, c, g) == [detach |-> d, confirm |-> c, group |-> g]

\* A blocking and a detached request, both confirmed and held.
ConfirmedRequests == {R(d, TRUE, g1) : d \in BOOLEAN}

\* Requests without a confirmation: blocking and held, detached and not held.
PlainRequests == {R(FALSE, FALSE, g1), R(TRUE, FALSE, NoGroup)}

\* One blocking request with nothing to hold.
PlainRequest == {R(FALSE, FALSE, NoGroup)}

\* One blocking request, confirmed and held.
HeldRequest == {R(FALSE, TRUE, g1)}

\* Commands that print nothing out of the way, and one that prints what the
\* daemon itself writes, with an exit code or killed by a signal.
PlainEnding == {Res("code", "text")}
OddEndings == {Res("code", "text"), Res("minus1", "client_aborted"),
               Res("minus1", "drift"), Res("code", "confirmation_timeout")}

RidSymmetry == Permutations(Rid)
==============================================================================

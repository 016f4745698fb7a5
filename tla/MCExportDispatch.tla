-------------------------- MODULE MCExportDispatch --------------------------
\* Every list of at most two signatures of at most two parameters.
EXTENDS ExportDispatch, TLC
CONSTANTS int, str, obj, a, b

MCParams == {int, str, obj}
\* obj and str overlap on b, so that declaration order matters, and int and str on a,
\* which the converter of str rejects although its probe accepts it.
MCAccepts == {<<int, a>>, <<str, a>>, <<str, b>>, <<obj, b>>}
MCRefuses == {<<str, a>>}
Upto(S, n) == UNION {[1..m -> S] : m \in 0..n}
MCTables == Upto(Upto(MCParams, 2) \cup {<<Sentinel>>}, 2)
=============================================================================

---------------------------- MODULE MCDocuments -----------------------------
(* Four passages, one generated, one longer than the smaller window; six  *)
(* divisions into chapters, of which four decode. *)
EXTENDS DocumentRun

P(size, generated) == [size |-> size, generated |-> generated]
MCSource == <<P(3, FALSE), P(2, TRUE), P(1, FALSE), P(1, FALSE)>>

B(b) == <<"B", b>>
G(g) == <<"G", g>>
D(chapters_, excluded) == [chapters |-> chapters_, excluded |-> excluded]
MCDrafts == {D(<<{G(1)}, {G(2)}>>, {}), D(<<{G(1), G(2)}>>, {}),
             D(<<{G(1), G(2)}>>, {B(2)}),
             D(<<{G(1)}, {B(1), B(3)}>>, {G(2)}),
             D(<<{B(1)}, {B(2)}>>, {}), D(<<{G(1)}, {G(1), G(2)}>>, {})}
=============================================================================

-------------------------- MODULE MCShowdownSession --------------------------
\* Two battles, one after the other or, when challenges are accepted, at the
\* same time; one user who is accepted and one who is not.
EXTENDS ShowdownSession

=============================================================================

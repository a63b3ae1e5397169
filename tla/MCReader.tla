------------------------------ MODULE MCReader ------------------------------
(* Reader on the regions of MCPool. *)
EXTENDS MCPool, Reader

\* Loads within a page, and loads that span two neighbouring pages.
TwoPages == {{x[1], x[2]} : x \in {x \in Page \X Page :
                x[1][1] = x[2][1] /\ x[2][2] \in {x[1][2], x[1][2] + PageSize}}}
=============================================================================

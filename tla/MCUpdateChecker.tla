--------------------------- MODULE MCUpdateChecker ---------------------------
(* Two places, on an instance each, that run one image. *)
EXTENDS UpdateChecker, TLC

CONSTANTS here, there, image, one, two, log, email

MCImageOf == here :> image @@ there :> image
MCInstanceOf == here :> one @@ there :> two

=============================================================================

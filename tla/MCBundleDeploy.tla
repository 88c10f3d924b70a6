---------------------------- MODULE MCBundleDeploy ----------------------------
(* BundleDeploy for TLC: the deployment of a GUI release and one of an image. *)
EXTENDS BundleDeploy
CONSTANTS gui, image

===============================================================================

-------------------------- MODULE MCCameraShims --------------------------
EXTENDS CameraShims
=============================================================================

-------------------------- MODULE MCCameraLaunch --------------------------
EXTENDS CameraLaunch
=============================================================================

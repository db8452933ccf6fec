\* The comment of Usb_Initialize on who frees UdecxCamInit.
SPECIFICATION FairSpec
PROPERTIES
  InitFreed

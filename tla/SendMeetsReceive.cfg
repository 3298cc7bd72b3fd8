\* The claim of src/src/rdma_device.cc:420 on the code's own two receives.
CONSTANT PostedRecvs = 2
SPECIFICATION Spec
INVARIANT SendMeetsReceive

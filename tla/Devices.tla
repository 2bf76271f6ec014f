------------------------------ MODULE Devices ------------------------------
(***************************************************************************)
(* The device model: the scans of the device tree (drivers/platform.c,     *)
(* drivers/virtio/virtio-mmio.c), registration and probing                 *)
(* (drivers/device.c), the probes of the UART and of the virtio block      *)
(* device, the interrupt table (kernel/irq.c) and the interrupt controller *)
(* (arch/riscv/plic.c).  Probing runs on CPU 0 with its interrupts off and *)
(* any step of it may fail, which ends the boot; interrupts are handled    *)
(* when it is over.                                                        *)
(***************************************************************************)
EXTENDS Naturals, Sequences, FiniteSets

CONSTANTS
  Trees,      \* device trees: sequences of nodes [kind, irq]
  NrSources,  \* nr_sources
  MmioPages   \* the pages of the window of virtio-mmio

Kinds == {"uart", "blk", "net"}
Sources == 1 .. NrSources

VARIABLES
  tree,      \* the nodes
  stage,     \* where kernel_main is
  node,      \* the node the scan is at
  step,      \* where the probe of a device is
  devices, drivers, started,  \* the lists and probe_started of device.c
  dev,       \* the devices: struct device, struct virtio_dev, what they allocated
  windows,   \* next_mmio
  uart, root,    \* ns16550a and root_bdev
  action,    \* irq_actions
  enabled, raised, serving,  \* the PLIC: enable bits, pending and claimed sources
  handling   \* the source CPU 0 has claimed

listVars == <<tree, node, devices, drivers, started, windows>>
plicVars == <<raised, serving, handling>>
devVars == <<tree, stage, node, step, devices, drivers, started, dev, windows,
             uart, root, action, enabled, plicVars>>

Nodes == 1 .. Len(tree)

\* A zeroed structure.
Unbound == [bound |-> FALSE, drv |-> "none", data |-> FALSE, status |-> {},
            vqs |-> 0, registered |-> FALSE, mem |-> {}]

DevicesInit ==
  /\ tree \in Trees
  /\ stage = "platform" /\ node = 1 /\ step = "none"
  /\ devices = <<>> /\ drivers = <<>> /\ started = FALSE
  /\ dev = [n \in 1 .. Len(tree) |-> Unbound]
  /\ windows = 0 /\ uart = 0 /\ root = 0
  /\ action = [i \in Sources |-> 0]
  /\ enabled = {} /\ raised = {} /\ serving = {} /\ handling = 0

Bus(kind) == IF kind = "uart" THEN "platform" ELSE "virtio"

-----------------------------------------------------------------------------
(* device_init: platform_scan, then virtio_mmio_scan.                      *)

\* device_register.
DeviceRegister(n) ==
  /\ ~started /\ \A i \in DOMAIN devices : devices[i] # n
  /\ devices' = Append(devices, n)

Scanning(n) == stage \in {"platform", "virtio"} /\ node = n /\ n \in Nodes

\* The device of another scan, one that is not available, a slot without a device.
SkipNode(n) ==
  /\ Scanning(n)
  /\ node' = n + 1
  /\ \E mapped \in 0 .. IF stage = "virtio" /\ Bus(tree[n].kind) = "virtio" THEN 1 ELSE 0 :
       windows + mapped <= MmioPages /\ windows' = windows + mapped
  /\ UNCHANGED <<tree, stage, step, devices, drivers, started, dev, uart, root,
                 action, enabled, plicVars>>

\* kzalloc, mmio_map, irq_parse, device_register.
ScanNode(n) ==
  /\ Scanning(n) /\ Bus(tree[n].kind) = stage
  /\ tree[n].irq \in Sources
  /\ stage = "virtio" => windows < MmioPages
  /\ DeviceRegister(n)
  /\ node' = n + 1
  /\ windows' = IF stage = "virtio" THEN windows + 1 ELSE windows
  /\ UNCHANGED <<tree, stage, step, drivers, started, dev, uart, root, action, enabled, plicVars>>

\* A bad property, no memory, no room in the window, an IRQ out of range.
ScanFails(n) ==
  /\ Scanning(n) /\ Bus(tree[n].kind) = stage
  /\ stage' = "halt"
  /\ UNCHANGED <<listVars, step, dev, uart, root, action, enabled, plicVars>>

\* The end of a scan.
ScanDone ==
  /\ stage \in {"platform", "virtio"} /\ node = Len(tree) + 1
  /\ IF stage = "platform" THEN stage' = "virtio" /\ node' = 1
                           ELSE stage' = "register" /\ node' = 0
  /\ UNCHANGED <<tree, devices, drivers, started, windows, step, dev, uart, root,
                 action, enabled, plicVars>>

-----------------------------------------------------------------------------
(* driver_init: ns16550a_register, virtio_blk_register, devices_probe.     *)

DriverRegister ==
  /\ stage = "register" /\ ~started
  /\ drivers' = <<"uart", "blk">>
  /\ started' = TRUE
  /\ stage' = "probe" /\ node' = 1
  /\ UNCHANGED <<tree, devices, windows, step, dev, uart, root, action, enabled, plicVars>>

\* The device devices_probe is at.
Current == devices[node]

\* The first driver of the bus that matches, or none.
Matched(n) ==
  LET fits == {i \in DOMAIN drivers : drivers[i] = tree[n].kind} IN
  IF fits = {} THEN "none" ELSE drivers[CHOOSE i \in fits : \A j \in fits : i <= j]

ProbeDevice ==
  /\ stage = "probe" /\ step = "none" /\ node <= Len(devices)
  /\ LET n == Current IN
     IF Matched(n) = "none"
     THEN node' = node + 1 /\ UNCHANGED <<step, dev>>
     ELSE /\ dev' = [dev EXCEPT ![n].drv = Matched(n)]
          /\ step' = IF Bus(tree[n].kind) = "platform" THEN "port" ELSE "reset"
          /\ UNCHANGED node
  /\ UNCHANGED <<tree, stage, devices, drivers, started, windows, uart, root, action,
                 enabled, plicVars>>

ProbeDone ==
  /\ stage = "probe" /\ step = "none" /\ node = Len(devices) + 1
  /\ stage' = "run" /\ node' = 0
  /\ UNCHANGED <<tree, devices, drivers, started, windows, step, dev, uart, root,
                 action, enabled, plicVars>>

\* The probe of d returned 0: the device is bound, the loop goes on.
Bound(d) ==
  /\ dev' = [dev EXCEPT ![Current] = [d EXCEPT !.bound = TRUE]]
  /\ step' = "none" /\ node' = node + 1
  /\ UNCHANGED stage

\* The probe of d failed and has cleaned up; the boot fails.
Failed(d) ==
  /\ dev' = [dev EXCEPT ![Current] = [d EXCEPT !.data = FALSE, !.drv = "none"]]
  /\ step' = "none" /\ stage' = "halt"
  /\ UNCHANGED node

\* irq_register demands a source without a handler; sources out of range do not
\* get past irq_parse, so irq_enable never fails.
IrqFree(i) == action[i] = 0

\* irq_unregister: the source is masked before the handler goes.
IrqUnregister(i) == action' = [action EXCEPT ![i] = 0] /\ enabled' = enabled \ {i}

Probing(s) == stage = "probe" /\ step = s

probeRest == <<tree, devices, drivers, started, windows, plicVars>>

-----------------------------------------------------------------------------
(* ns16550a_probe.                                                         *)

\* The resources are checked, the port is allocated, mapped and initialised.
UartPort ==
  LET d == dev[Current] IN
  /\ Probing("port")
  /\ \/ /\ uart = 0
        /\ dev' = [dev EXCEPT ![Current].mem = {"port"}]
        /\ step' = "irq" /\ UNCHANGED <<stage, node>>
     \/ Failed(d)
  /\ UNCHANGED <<probeRest, uart, root, action, enabled>>

\* irq_register, irq_enable, and the interrupts of the UART itself.
UartIrq ==
  LET d == dev[Current]
      i == tree[Current].irq
  IN
  /\ Probing("irq")
  /\ IF IrqFree(i)
     THEN /\ action' = [action EXCEPT ![i] = Current]
          /\ enabled' = enabled \cup {i}
          /\ uart' = Current
          /\ Bound([d EXCEPT !.data = TRUE])
     ELSE Failed([d EXCEPT !.mem = {}]) /\ UNCHANGED <<uart, action, enabled>>
  /\ UNCHANGED <<probeRest, root>>

-----------------------------------------------------------------------------
(* virtio_probe and virtio_blk_probe.                                      *)

\* Faulty variant: the interrupt stays registered.
AbortIrqKept(d, i) == UNCHANGED <<action, enabled>>

\* virtio_abort gives the interrupt back if it was registered.
AbortIrq(d, i) ==
  IF d.registered THEN IrqUnregister(i) ELSE UNCHANGED <<action, enabled>>

\* virtio_abort: nothing of the device is left and it is reset.
VirtioAbort(d) ==
  /\ AbortIrq(d, tree[Current].irq)
  /\ Failed([d EXCEPT !.status = {}, !.vqs = 0, !.registered = FALSE])

\* A reset that times out is tried once more by virtio_abort, which panics if
\* the device stays silent.
VirtioReset ==
  /\ Probing("reset")
  /\ \/ /\ dev' = [dev EXCEPT ![Current].status = {"ACK", "DRIVER"}]
        /\ step' = "features" /\ UNCHANGED <<stage, node, action, enabled>>
     \/ VirtioAbort(dev[Current])
     \/ stage' = "panic" /\ UNCHANGED <<dev, step, node, action, enabled>>
  /\ UNCHANGED <<probeRest, uart, root>>

VirtioNegotiate ==
  LET d == dev[Current] IN
  /\ Probing("features")
  /\ \/ /\ dev' = [dev EXCEPT ![Current].status = @ \cup {"FEATURES_OK"}]
        /\ step' = "queue" /\ UNCHANGED <<stage, node, action, enabled>>
     \/ VirtioAbort(d)
     \/ VirtioAbort([d EXCEPT !.status = @ \cup {"FEATURES_OK"}])
  /\ UNCHANGED <<probeRest, uart, root>>

\* queue_max, virtqueue_create and setup_vq; then irq_register.
VirtioQueue ==
  LET d == [dev[Current] EXCEPT !.vqs = 1]
      i == tree[Current].irq
  IN
  /\ Probing("queue")
  /\ \/ VirtioAbort(dev[Current])
     \/ ~IrqFree(i) /\ VirtioAbort(d)
     \/ /\ IrqFree(i)
        /\ action' = [action EXCEPT ![i] = Current]
        /\ dev' = [dev EXCEPT ![Current] = [d EXCEPT !.registered = TRUE]]
        /\ step' = "blk" /\ UNCHANGED <<stage, node, enabled>>
  /\ UNCHANGED <<probeRest, uart, root>>

\* virtio_blk_probe up to virtio_dev_ready: the features and the configuration
\* are checked, the device and its wire page are allocated; blk is freed on failure.
BlkProbe ==
  LET d == dev[Current] IN
  /\ Probing("blk")
  /\ \/ VirtioAbort(d)
     \/ /\ dev' = [dev EXCEPT ![Current] = [d EXCEPT !.mem = {"blk", "wire"}, !.data = TRUE]]
        /\ step' = "ready" /\ UNCHANGED <<stage, node, action, enabled>>
  /\ UNCHANGED <<probeRest, uart, root>>

\* Faulty variant: the wire page is forgotten.
ReadyFailedLeak(d) == [d EXCEPT !.data = FALSE, !.mem = {"wire"}]

\* drvdata is cleared, the wire page and blk are freed.
ReadyFailed(d) == [d EXCEPT !.data = FALSE, !.mem = {}]

\* virtio_dev_ready: the device asks for a reset, or its source is enabled and
\* it is started.
BlkReady ==
  LET d == dev[Current]
      i == tree[Current].irq
  IN
  /\ Probing("ready")
  /\ \/ VirtioAbort(ReadyFailed(d)) /\ UNCHANGED root
     \/ /\ enabled' = enabled \cup {i}
        /\ root' = IF root = 0 THEN Current ELSE root
        /\ Bound([d EXCEPT !.status = @ \cup {"DRIVER_OK"}])
        /\ UNCHANGED action
  /\ UNCHANGED <<probeRest, uart>>

-----------------------------------------------------------------------------
(* Interrupts, on CPU 0 once the boot is over.                             *)

irqRest == <<tree, stage, node, step, devices, drivers, started, dev, windows, uart, root, action>>

\* external: a started device raises its line.
Raise(n) ==
  /\ stage = "run" /\ n \in Nodes /\ dev[n].bound
  /\ raised' = raised \cup {tree[n].irq}
  /\ UNCHANGED <<irqRest, enabled, serving, handling>>

\* plic_claim.
Claim(i) ==
  /\ stage = "run" /\ handling = 0
  /\ i \in (raised \cap enabled) \ serving
  /\ handling' = i /\ serving' = serving \cup {i} /\ raised' = raised \ {i}
  /\ UNCHANGED <<irqRest, enabled>>

\* irq_enable and irq_disable, at any time and on any CPU.
Toggle(i) ==
  /\ stage = "run" /\ action[i] # 0
  /\ enabled' = IF i \in enabled THEN enabled \ {i} ELSE enabled \cup {i}
  /\ UNCHANGED <<irqRest, plicVars>>

\* Faulty variant: the completion is written whatever the enable bit.
CompletedPlain(i) == IF i \in enabled THEN serving \ {i} ELSE serving

\* The PLIC ignores a completion for a disabled source, so plic_complete enables
\* it for the write.
Completed(i) == serving \ {i}

\* The handler returned: plic_complete.
Complete ==
  /\ handling # 0
  /\ serving' = Completed(handling) /\ handling' = 0
  /\ UNCHANGED <<irqRest, enabled, raised>>

-----------------------------------------------------------------------------
DevicesNext ==
  \/ \E n \in Nodes : SkipNode(n) \/ ScanNode(n) \/ ScanFails(n) \/ Raise(n)
  \/ ScanDone \/ DriverRegister \/ ProbeDevice \/ ProbeDone
  \/ UartPort \/ UartIrq
  \/ VirtioReset \/ VirtioNegotiate \/ VirtioQueue \/ BlkProbe \/ BlkReady
  \/ \E i \in Sources : Claim(i) \/ Toggle(i)
  \/ Complete

DevicesSpec == DevicesInit /\ [][DevicesNext]_devVars

-----------------------------------------------------------------------------
(* Properties.                                                             *)

\* What a device that is not bound and not being probed has left behind: nothing.
Clean(n) ==
  /\ dev[n] = Unbound
  /\ \A i \in Sources : action[i] # n
  /\ uart # n /\ root # n

\* A bound device works: its handler is installed, and a block device has its
\* queue, its memory and DRIVER_OK.  A device whose probe failed has given
\* everything back, as the contract of devices_probe in device.h demands.  A
\* source that is enabled has a handler, so the assertion of irq_dispatch holds.
ProbeInv ==
  /\ \A n \in Nodes :
       \/ /\ dev[n].bound /\ dev[n].data /\ dev[n].drv = tree[n].kind
          /\ action[tree[n].irq] = n
          /\ IF tree[n].kind = "uart" THEN uart = n
             ELSE dev[n].vqs = 1 /\ "DRIVER_OK" \in dev[n].status
                  /\ dev[n].mem = {"blk", "wire"} /\ root # 0
       \/ Clean(n)
       \/ step # "none" /\ n = Current
  /\ \A i \in enabled : action[i] # 0

\* A source is in service only while CPU 0 runs its handler: masking it from
\* another CPU during the handler does not leave the gateway of the source
\* closed for ever.
NoStuckSource == serving = (IF handling = 0 THEN {} ELSE {handling})
=============================================================================

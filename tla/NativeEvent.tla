---------------------------- MODULE NativeEvent -----------------------------
(***************************************************************************)
(* iree_hal_vulkan_native_event_create and _destroy of                     *)
(* src/iree/hal/vulkan/native_event.cc as ResourceSteps.  The VkEvent is   *)
(* created first; the host allocation of the event struct may then fail,   *)
(* and that path destroys the VkEvent before returning.  On success the    *)
(* event takes over the handle, and the caller's last release of the event *)
(* (iree_hal_resource_release, NULL-safe) runs the vtable's destroy, which *)
(* destroys the VkEvent and frees the struct.                              *)
(***************************************************************************)
EXTENDS ResourceSteps

EventObjects == {"vk_event", "event"}

E(o, kids) == <<o, kids>>

\* iree_hal_vulkan_create_event: vkCreateEvent, which may fail.
CreateVkEvent == Step(<<E("vk_event", {})>>, {}, {}, <<>>, TRUE)

\* iree_hal_vulkan_destroy_event: vkDestroyEvent of a handle that is not
\* VK_NULL_HANDLE.
DestroyEvent == <<"vk_event">>

\* Mutant: the allocation failure path forgets the VkEvent.
MallocEventNoCleanup ==
    Step(<<E("event", {"vk_event"})>>, {}, {}, <<"vk_event">>, TRUE)

\* iree_allocator_malloc of the struct: on success the event holds the
\* handle; on failure iree_hal_vulkan_destroy_event(handle) runs.
MallocEvent ==
    WithCleanup(Step(<<E("event", {"vk_event"})>>, {}, {}, <<"vk_event">>, TRUE),
                DestroyEvent)

\* The caller's release of *out_event, NULL after a failed create; the last
\* release runs iree_hal_vulkan_native_event_destroy.
ReleaseEvent == Step(<<>>, {}, {}, <<"event">>, FALSE)

EventPrograms ==
    {[body |-> <<CreateVkEvent, MallocEvent>>, epilogue |-> <<ReleaseEvent>>]}

=============================================================================
